---- MODULE Spec2Model ----
(***************************************************************************)
(* V3 market-frame codec (decoder.py) and its producer, the market logger  *)
(* (polymarket_market_logger_v2.py).                                       *)
(*                                                                         *)
(* Conventions.                                                            *)
(*  - A byte buffer is a sequence of 0..255; indices into buffers are the  *)
(*    0-based indices of the source, so buf[i] of the source is buf[i+1].  *)
(*  - Optional[int] is <<>> (None) or <<n>>.                               *)
(*  - A Python str that travels as text (a line of the log, the argument   *)
(*    of compress) is a tagged value: [t |-> "raw", v |-> s] is text that  *)
(*    is not JSON, [t |-> "json", v |-> value] is the compact JSON text of *)
(*    value, [t |-> "b64", v |-> bytes] is the base64url text of the raw   *)
(*    DEFLATE of bytes.                                                    *)
(*  - A JSON value is tagged: "obj" (a dict, v a function from keys),      *)
(*    "arr" (a list), "str", "num".                                        *)
(***************************************************************************)
EXTENDS Integers, Sequences, FiniteSets, TLC

VARIABLES comp, calls, file, mode, phase, container, ndjson, entries, rpos,
          st, outputs, written, pc, pending, closed, loop, insts, hist,
          tools, disk, last, ubuf, upool, uop, udec

vars == <<comp, calls, file, mode, phase, container, ndjson, entries, rpos,
          st, outputs, written, pc, pending, closed, loop, insts, hist,
          tools, disk, last, ubuf, upool, uop, udec>>

\* the position of the logger's main thread, the lines its running
\* _on_message has still to write, the state of the writer's file and the
\* state of run_forever
logger_vars == <<pc, pending, closed, loop>>

\* the compressor objects of the process and the calls made on each
inst_vars == <<insts, hist>>

\* the archiving tools of the machine, its files, and the last call of
\* compress_file or decompress_file with what it did
archive_vars == <<tools, disk, last>>

\* a bytearray, a _StringPool, the last call made on the varint helpers or
\* on the pool with them, and whether decode was called on the pool since
\* it was made or reset
unit_vars == <<ubuf, upool, uop, udec>>

\* number of websocket frames the logger receives in one run
MaxFrames == 3

None == <<>>
Some(x) == <<x>>

(***************************************************************************)
(* Strings: UTF-8 and decimal conversions.                                 *)
(***************************************************************************)

\* s.encode("utf-8") for the strings of the model
utf8_encode(s) ==
  CASE s = ""     -> <<>>
    [] s = "A"    -> <<65>>
    [] s = "0"    -> <<48>>
    [] s = "7"    -> <<55>>
    [] s = "10"   -> <<49, 48>>
    [] s = "25"   -> <<50, 53>>
    [] s = "0.5"  -> <<48, 46, 53>>
    [] s = "0.6"  -> <<48, 46, 54>>
    [] s = "PONG" -> <<80, 79, 78, 71>>

WireStrings == {"", "A", "0", "7", "10", "25", "0.5", "0.6", "PONG"}

\* bytes.decode("utf-8")
utf8_decode(b) ==
  IF \E s \in WireStrings : utf8_encode(s) = b
  THEN CHOOSE s \in WireStrings : utf8_encode(s) = b
  ELSE "<other>"

Digits == <<"0", "1", "2", "3", "4", "5", "6", "7", "8", "9">>

\* str(n) for an int n >= 0
RECURSIVE str_int(_)
str_int(n) ==
  IF n < 10 THEN Digits[n + 1]
  ELSE str_int(n \div 10) \o Digits[(n % 10) + 1]

\* int(ts) for the timestamp texts of the model; None when int() raises
int_parse(s) ==
  CASE s = "90"  -> Some(90)
    [] s = "100" -> Some(100)
    [] s = "150" -> Some(150)
    [] s = "300" -> Some(300)
    [] s = "-5"  -> Some(-5)
    [] OTHER     -> None

\* str.upper() for the side texts of the model
upper(s) ==
  CASE s = "sell" -> "SELL"
    [] s = "buy"  -> "BUY"
    [] OTHER      -> s

\* dict.get(k, default)
get(d, k, default) == IF k \in DOMAIN d THEN d[k] ELSE default

(***************************************************************************)
(* Varint helpers (LEB128).                                                *)
(***************************************************************************)

RECURSIVE uvarint_bytes(_)
uvarint_bytes(n) ==
  IF n > 127 THEN <<(n % 128) + 128>> \o uvarint_bytes(n \div 128)
  ELSE <<n % 128>>

\* only the low seven bits are written
_uvarint_encode_one_byte(n) ==
  IF n < 0 THEN [err |-> "uvarint negative", out |-> <<>>]
  ELSE [err |-> "", out |-> <<n % 128>>]

_uvarint_encode(n) ==
  IF n < 0 THEN [err |-> "uvarint negative", out |-> <<>>]
  ELSE [err |-> "", out |-> uvarint_bytes(n)]

\* shift >= 70
shift_overflows_at_70(shift) == shift >= 70

\* shift > 70
shift_overflows(shift) == shift > 70

RECURSIVE uvarint_loop(_, _, _, _)
uvarint_loop(buf, i, shift, x) ==
  IF i >= Len(buf) THEN [err |-> "uvarint truncated", x |-> 0, i |-> i]
  ELSE LET b == buf[i + 1]
           x2 == IF b % 128 = 0 THEN x ELSE x + (b % 128) * (2 ^ shift)
       IN IF b < 128 THEN [err |-> "", x |-> x2, i |-> i + 1]
          ELSE IF shift_overflows(shift + 7)
               THEN [err |-> "uvarint overflow", x |-> 0, i |-> i + 1]
               ELSE uvarint_loop(buf, i + 1, shift + 7, x2)

_uvarint_decode(buf, i) == uvarint_loop(buf, i, 0, 0)

(***************************************************************************)
(* Raw DEFLATE + base64url transport.                                      *)
(***************************************************************************)

_deflate_raw_b64(data) == [t |-> "b64", v |-> data]

\* a text that is not the base64url of a raw DEFLATE stream makes
\* urlsafe_b64decode or zlib.decompress raise
_inflate_raw_b64(token) ==
  IF token.t = "b64" THEN [err |-> "", buf |-> token.v]
  ELSE [err |-> "not raw deflate", buf |-> <<>>]

(***************************************************************************)
(* Event + field coding constants.                                         *)
(***************************************************************************)

_ET_CODE == [book |-> 0, price_change |-> 1, tick_size_change |-> 2,
             last_trade_price |-> 3]
_ET_FROM == <<"book", "price_change", "tick_size_change", "last_trade_price">>

_TB_TS_ABS == 32
_TB_OPT0 == 8
_REC_HEADER == 72
_REC_FRAME == 70
_REC_RAW == 88
_H_SINGLE_ASSET == 1

\* (tb & mask) != 0 for a one-bit mask
bit_set(tb, mask) == (tb \div mask) % 2 = 1

(***************************************************************************)
(* _StringPool                                                             *)
(***************************************************************************)

_StringPool_init ==
  [s2i |-> [s \in {} |-> 0], i2s |-> <<"<unused>">>, next |-> 1]

\* the string is stored and next is left as it is
pool_add_no_count(pool, s) ==
  [s2i |-> [x \in (DOMAIN pool.s2i) \cup {s} |->
              IF x = s THEN pool.next ELSE pool.s2i[x]],
   i2s |-> Append(pool.i2s, s),
   next |-> pool.next]

pool_add(pool, s) ==
  [s2i |-> [x \in (DOMAIN pool.s2i) \cup {s} |->
              IF x = s THEN pool.next ELSE pool.s2i[x]],
   i2s |-> Append(pool.i2s, s),
   next |-> pool.next + 1]

\* _StringPool.encode: the bytes appended to out and the pool afterwards;
\* toks lists the pool elements written to out (a reference with its id, or
\* a literal)
pool_encode(pool, s) ==
  IF s \in DOMAIN pool.s2i
  THEN [pool |-> pool, out |-> _uvarint_encode(pool.s2i[s] * 2).out,
        toks |-> <<[lit |-> FALSE, s |-> s, id |-> pool.s2i[s]]>>]
  ELSE LET lit(b) == [pool |-> pool_add(pool, s),
                      out |-> _uvarint_encode(Len(b) * 2 + 1).out \o b,
                      toks |-> <<[lit |-> TRUE, s |-> s, id |-> 0]>>]
       IN lit(utf8_encode(s))

\* a decode that takes the reference 0 for the entry "<unused>"
pool_decode_ref_zero(pool, buf, i) ==
  LET lit(s, j) == [err |-> "", s |-> s, i |-> j, pool |-> pool_add(pool, s)]
      tok(r) ==
        IF r.err # "" THEN [err |-> r.err, s |-> "", i |-> r.i, pool |-> pool]
        ELSE IF r.x % 2 = 0
        THEN IF r.x \div 2 >= pool.next
             THEN [err |-> "bad string ref", s |-> "", i |-> r.i, pool |-> pool]
             ELSE [err |-> "", s |-> pool.i2s[(r.x \div 2) + 1], i |-> r.i,
                   pool |-> pool]
        ELSE IF r.i + (r.x \div 2) > Len(buf)
             THEN [err |-> "literal overflow", s |-> "", i |-> r.i, pool |-> pool]
             ELSE lit(utf8_decode(SubSeq(buf, r.i + 1, r.i + (r.x \div 2))),
                      r.i + (r.x \div 2))
  IN tok(_uvarint_decode(buf, i))

\* _StringPool.decode
pool_decode(pool, buf, i) ==
  LET lit(s, j) == [err |-> "", s |-> s, i |-> j, pool |-> pool_add(pool, s)]
      tok(r) ==
        IF r.err # "" THEN [err |-> r.err, s |-> "", i |-> r.i, pool |-> pool]
        ELSE IF r.x % 2 = 0
        THEN IF r.x \div 2 <= 0 \/ r.x \div 2 >= pool.next
             THEN [err |-> "bad string ref", s |-> "", i |-> r.i, pool |-> pool]
             ELSE [err |-> "", s |-> pool.i2s[(r.x \div 2) + 1], i |-> r.i,
                   pool |-> pool]
        ELSE IF r.i + (r.x \div 2) > Len(buf)
             THEN [err |-> "literal overflow", s |-> "", i |-> r.i, pool |-> pool]
             ELSE lit(utf8_decode(SubSeq(buf, r.i + 1, r.i + (r.x \div 2))),
                      r.i + (r.x \div 2))
  IN tok(_uvarint_decode(buf, i))

\* an empty bytearray, a new _StringPool, no call made yet
UnitIdle ==
  /\ ubuf = <<>>
  /\ upool = _StringPool_init
  /\ uop = <<>>
  /\ udec = FALSE

(***************************************************************************)
(* FrameCompressorV3.  self is [asset_id, pool, base_ts, prev_ts,          *)
(* wrote_header]; a method returns the bytes it appended to out, the       *)
(* object afterwards and err # "" when it raised (the object then holds    *)
(* the assignments made before the raise).                                 *)
(***************************************************************************)

FrameCompressorV3_init(asset_id) ==
  [asset_id |-> asset_id, pool |-> _StringPool_init, base_ts |-> None,
   prev_ts |-> None, wrote_header |-> FALSE]

\* _get_ts of a dict
_get_ts(d) ==
  IF "timestamp" \notin DOMAIN d THEN None ELSE int_parse(d["timestamp"])

RECURSIVE encode_levels_loop(_, _)
encode_levels_loop(pool, lv) ==
  IF lv = <<>> THEN [pool |-> pool, out |-> <<>>, toks |-> <<>>]
  ELSE LET rest(p, s, r) == [pool |-> r.pool, out |-> p.out \o s.out \o r.out,
                             toks |-> p.toks \o s.toks \o r.toks]
           size(p, s) == rest(p, s, encode_levels_loop(s.pool, Tail(lv)))
           price(p) == size(p, pool_encode(p.pool, get(Head(lv), "size", "")))
       IN price(pool_encode(pool, get(Head(lv), "price", "")))

_encode_levels(pool, levels) ==
  LET count(r) == [pool |-> r.pool,
                   out |-> _uvarint_encode(Len(levels)).out \o r.out,
                   toks |-> r.toks]
  IN count(encode_levels_loop(pool, levels))

_encode_book(pool, d) ==
  LET both(b, a) == [pool |-> a.pool, out |-> b.out \o a.out,
                     toks |-> b.toks \o a.toks]
      asks(b) == both(b, _encode_levels(b.pool,
                   IF "asks" \in DOMAIN d THEN d["asks"] ELSE get(d, "sells", <<>>)))
  IN asks(_encode_levels(pool,
            IF "bids" \in DOMAIN d THEN d["bids"] ELSE get(d, "buys", <<>>)))

\* the side byte without the uppercasing
side_byte_as_written(d) == IF get(d, "side", "") = "SELL" THEN 1 ELSE 0

side_byte(d) == IF upper(get(d, "side", "")) = "SELL" THEN 1 ELSE 0

RECURSIVE encode_changes_loop(_, _)
encode_changes_loop(pool, chs) ==
  IF chs = <<>> THEN [pool |-> pool, out |-> <<>>, toks |-> <<>>]
  ELSE LET rest(p, s, r) ==
             [pool |-> r.pool,
              out |-> <<side_byte(Head(chs))>> \o p.out \o s.out \o r.out,
              toks |-> p.toks \o s.toks \o r.toks]
           size(p, s) == rest(p, s, encode_changes_loop(s.pool, Tail(chs)))
           price(p) == size(p, pool_encode(p.pool, get(Head(chs), "size", "")))
       IN price(pool_encode(pool, get(Head(chs), "price", "")))

_encode_price_change(pool, d) ==
  LET count(r) == [pool |-> r.pool,
                   out |-> _uvarint_encode(Len(get(d, "changes", <<>>))).out \o r.out,
                   toks |-> r.toks]
  IN count(encode_changes_loop(pool, get(d, "changes", <<>>)))

_encode_tick_size_change(pool, d) ==
  LET both(o, n) == [pool |-> n.pool, out |-> o.out \o n.out,
                     toks |-> o.toks \o n.toks]
      new(o) == both(o, pool_encode(o.pool, get(d, "new_tick_size", "")))
  IN new(pool_encode(pool, get(d, "old_tick_size", "")))

_encode_last_trade_price(pool, d, type_byte) ==
  LET fee(p, s, f) == [pool |-> f.pool,
                       out |-> p.out \o s.out \o <<side_byte(d)>> \o f.out,
                       toks |-> p.toks \o s.toks \o f.toks]
      side(p, s) ==
        IF bit_set(type_byte, _TB_OPT0)
        THEN fee(p, s, pool_encode(s.pool, get(d, "fee_rate_bps", "")))
        ELSE [pool |-> s.pool, out |-> p.out \o s.out \o <<side_byte(d)>>,
              toks |-> p.toks \o s.toks]
      size(p) == side(p, pool_encode(p.pool, get(d, "size", "")))
  IN size(pool_encode(pool, get(d, "price", "")))

\* the timestamp part of _encode_event: the value written, TS_ABS and the
\* new prev_ts
encode_ts(prev_ts, ts) ==
  IF prev_ts = None \/ ts = None
  THEN [ts_val |-> IF ts = None THEN 0 ELSE ts[1], ts_abs |-> TRUE,
        prev_ts |-> IF ts # None THEN ts ELSE prev_ts]
  ELSE IF ts[1] >= prev_ts[1]
       THEN [ts_val |-> ts[1] - prev_ts[1], ts_abs |-> FALSE, prev_ts |-> ts]
       ELSE [ts_val |-> ts[1], ts_abs |-> TRUE, prev_ts |-> ts]

\* the type byte with OPT0 set for every last_trade_price
type_byte_fee_always(et_code, ts_abs, d) ==
  (et_code % 8)
  + (IF ts_abs THEN _TB_TS_ABS ELSE 0)
  + (IF et_code = _ET_CODE["last_trade_price"] THEN _TB_OPT0 ELSE 0)

\* the type byte of _encode_event
type_byte_of(et_code, ts_abs, d) ==
  (et_code % 8)
  + (IF ts_abs THEN _TB_TS_ABS ELSE 0)
  + (IF et_code = _ET_CODE["last_trade_price"] /\ "fee_rate_bps" \in DOMAIN d
     THEN _TB_OPT0 ELSE 0)

\* the payload switch of _encode_event
encode_payload(et_code, pool, d, tb) ==
  CASE et_code = 0 -> _encode_book(pool, d)
    [] et_code = 1 -> _encode_price_change(pool, d)
    [] et_code = 2 -> _encode_tick_size_change(pool, d)
    [] et_code = 3 -> _encode_last_trade_price(pool, d, tb)

_encode_event(self, ev) ==
  IF ev.t # "obj"
  THEN [err |-> "AttributeError", self |-> self, out |-> <<>>, toks |-> <<>>]
  ELSE IF get(ev.v, "event_type", "") \notin DOMAIN _ET_CODE
  THEN [err |-> "Unknown event_type", self |-> self, out |-> <<>>, toks |-> <<>>]
  ELSE
  LET payload(self1, tb, tsv, pl) ==
        [err |-> "", self |-> [self1 EXCEPT !.pool = pl.pool],
         out |-> <<tb>> \o tsv.out \o pl.out, toks |-> pl.toks]
      varint(et_code, self1, tb, tsv) ==
        IF tsv.err # ""
        THEN [err |-> tsv.err, self |-> self1, out |-> <<>>, toks |-> <<>>]
        ELSE payload(self1, tb, tsv, encode_payload(et_code, self1.pool, ev.v, tb))
      stamp(et_code, e) ==
        varint(et_code, [self EXCEPT !.prev_ts = e.prev_ts],
               type_byte_of(et_code, e.ts_abs, ev.v), _uvarint_encode(e.ts_val))
  IN stamp(_ET_CODE[get(ev.v, "event_type", "")],
           encode_ts(self.prev_ts, _get_ts(ev.v)))

RECURSIVE encode_events_loop(_, _)
encode_events_loop(self, events) ==
  IF events = <<>> THEN [err |-> "", self |-> self, out |-> <<>>, toks |-> <<>>]
  ELSE LET rest(r, q) == [err |-> q.err, self |-> q.self, out |-> r.out \o q.out,
                          toks |-> r.toks \o q.toks]
           first(r) == IF r.err # "" THEN r
                       ELSE rest(r, encode_events_loop(r.self, Tail(events)))
       IN first(_encode_event(self, Head(events)))

\* returns the line in field line
_encode_frame_events(self, events) ==
  LET frame(r) ==
        [err |-> r.err, self |-> r.self, toks |-> r.toks,
         line |-> _deflate_raw_b64(<<_REC_FRAME>>
                                   \o _uvarint_encode(Len(events)).out \o r.out)]
  IN frame(encode_events_loop(self, events))

\* the bytes of the header record
header_bytes(b, aid_b) ==
  <<_REC_HEADER>> \o _uvarint_encode(3).out
  \o _uvarint_encode(_H_SINGLE_ASSET).out \o b.out
  \o _uvarint_encode(1).out \o _uvarint_encode(Len(aid_b)).out \o aid_b

\* the body of _ensure_header after the wrote_header test
write_header(self, first_ts) ==
  LET emit(self1, b) ==
        IF b.err # "" THEN [err |-> b.err, self |-> self1, header |-> None]
        ELSE [err |-> "",
              self |-> [self1 EXCEPT !.wrote_header = TRUE,
                                     !.pool = _StringPool_init],
              header |-> Some(_deflate_raw_b64(
                                header_bytes(b, utf8_encode(self.asset_id))))]
      base(base_ts) ==
        emit([self EXCEPT !.base_ts = Some(base_ts), !.prev_ts = Some(base_ts)],
             _uvarint_encode(base_ts))
  IN base(IF first_ts # None THEN first_ts[1] ELSE 0)

\* _ensure_header without the early return
_ensure_header_always(self, first_ts) == write_header(self, first_ts)

\* header is None or <<line>>
_ensure_header(self, first_ts) ==
  IF self.wrote_header THEN [err |-> "", self |-> self, header |-> None]
  ELSE write_header(self, first_ts)

\* json.dumps(obj, separators=(",", ":")) of a JSON scalar, as a str
json_scalar_text(obj) ==
  CASE obj.t = "num" -> str_int(obj.v)

\* compress_raw that drops the pool entry of the text
compress_raw_no_intern(self, s) ==
  LET rec(h, p) ==
        [err |-> "", self |-> h.self,
         ret |-> h.header \o <<_deflate_raw_b64(<<_REC_RAW>> \o p.out)>>,
         toks |-> p.toks]
      head(h) == rec(h, pool_encode(h.self.pool, s))
  IN head(_ensure_header(self, None))

\* the RAW record of compress for the text s
compress_raw(self, s) ==
  LET rec(h, p) ==
        [err |-> "", self |-> [h.self EXCEPT !.pool = p.pool],
         ret |-> h.header \o <<_deflate_raw_b64(<<_REC_RAW>> \o p.out)>>,
         toks |-> p.toks]
      head(h) == rec(h, pool_encode(h.self.pool, s))
  IN head(_ensure_header(self, None))

\* the scan of compress for the first numeric timestamp: [err, ts]
RECURSIVE first_ts_scan(_)
first_ts_scan(events) ==
  IF events = <<>> THEN [err |-> "", ts |-> None]
  ELSE IF Head(events).t # "obj" THEN [err |-> "AttributeError", ts |-> None]
  ELSE IF _get_ts(Head(events).v) # None
       THEN [err |-> "", ts |-> _get_ts(Head(events).v)]
       ELSE first_ts_scan(Tail(events))

\* ev.pop("market", None); ev.pop("hash", None) on every dict of events
pop_market_hash(events) ==
  [k \in 1..Len(events) |->
     IF events[k].t = "obj"
     THEN [t |-> "obj",
           v |-> [f \in (DOMAIN events[k].v) \ {"market", "hash"} |-> events[k].v[f]]]
     ELSE events[k]]

\* the events branch of compress
compress_events(self, events) ==
  LET frame(h, fr) ==
        IF fr.err # ""
        THEN [err |-> fr.err, self |-> fr.self, ret |-> <<>>, toks |-> <<>>]
        ELSE [err |-> "", self |-> fr.self, ret |-> h.header \o <<fr.line>>,
              toks |-> fr.toks]
      head(h) ==
        IF h.err # ""
        THEN [err |-> h.err, self |-> h.self, ret |-> <<>>, toks |-> <<>>]
        ELSE frame(h, _encode_frame_events(h.self, pop_market_hash(events)))
      scan(f) ==
        IF f.err # "" THEN [err |-> f.err, self |-> self, ret |-> <<>>, toks |-> <<>>]
        ELSE head(_ensure_header(self, f.ts))
  IN scan(first_ts_scan(events))

\* FrameCompressorV3.compress: ret is the list of returned lines, toks the
\* pool elements of the returned record
compress(self, raw_frame_str) ==
  IF raw_frame_str.t # "json" THEN compress_raw(self, raw_frame_str.v)
  ELSE IF raw_frame_str.v.t \notin {"obj", "arr"}
  THEN compress_raw(self, json_scalar_text(raw_frame_str.v))
  ELSE compress_events(self, IF raw_frame_str.v.t = "obj"
                             THEN <<raw_frame_str.v>> ELSE raw_frame_str.v.v)

(***************************************************************************)
(* V3 decoder.  st is [pool, base_ts, prev_ts, asset_ids, flags,           *)
(* have_header]; a function returns err # "" when it raised, and st then   *)
(* holds the assignments made before the raise.                            *)
(***************************************************************************)

_V3State_init ==
  [pool |-> _StringPool_init, base_ts |-> 0, prev_ts |-> None,
   asset_ids |-> <<>>, flags |-> 0, have_header |-> FALSE]

RECURSIVE decode_assets_loop(_, _, _, _)
decode_assets_loop(buf, i, n, ids) ==
  IF n = 0 THEN [err |-> "", ids |-> ids, i |-> i]
  ELSE LET asset(l) ==
             IF l.err # "" THEN [err |-> l.err, ids |-> ids, i |-> l.i]
             ELSE IF l.i + l.x > Len(buf)
             THEN [err |-> "asset id truncated", ids |-> ids, i |-> l.i]
             ELSE decode_assets_loop(buf, l.i + l.x, n - 1,
                    Append(ids, utf8_decode(SubSeq(buf, l.i + 1, l.i + l.x))))
       IN asset(_uvarint_decode(buf, i))

\* _decode_header without the pool reset
_decode_header_keep_pool(buf, i, s0) ==
  LET assets(s1, a) ==
        IF a.err # "" THEN [err |-> a.err, st |-> [s1 EXCEPT !.asset_ids = a.ids]]
        ELSE [err |-> "", st |-> [s1 EXCEPT !.asset_ids = a.ids,
                                            !.have_header = TRUE]]
      count(s1, ac) ==
        IF ac.err # "" THEN [err |-> ac.err, st |-> s1]
        ELSE assets(s1, decode_assets_loop(buf, ac.i, ac.x, <<>>))
      base(flags, base_ts) ==
        IF base_ts.err # "" THEN [err |-> base_ts.err, st |-> s0]
        ELSE count([s0 EXCEPT !.base_ts = base_ts.x, !.prev_ts = Some(base_ts.x),
                              !.flags = flags.x],
                   _uvarint_decode(buf, base_ts.i))
      flag(flags) ==
        IF flags.err # "" THEN [err |-> flags.err, st |-> s0]
        ELSE base(flags, _uvarint_decode(buf, flags.i))
      version(ver) ==
        IF ver.err # "" THEN [err |-> ver.err, st |-> s0]
        ELSE IF ver.x # 3 THEN [err |-> "Unsupported V3 version", st |-> s0]
        ELSE flag(_uvarint_decode(buf, ver.i))
  IN version(_uvarint_decode(buf, i))

_decode_header(buf, i, s0) ==
  LET assets(s1, a) ==
        IF a.err # "" THEN [err |-> a.err, st |-> [s1 EXCEPT !.asset_ids = a.ids]]
        ELSE [err |-> "", st |-> [s1 EXCEPT !.asset_ids = a.ids,
                                            !.have_header = TRUE]]
      count(s1, ac) ==
        IF ac.err # "" THEN [err |-> ac.err, st |-> s1]
        ELSE assets(s1, decode_assets_loop(buf, ac.i, ac.x, <<>>))
      base(flags, base_ts) ==
        IF base_ts.err # "" THEN [err |-> base_ts.err, st |-> s0]
        ELSE count([s0 EXCEPT !.base_ts = base_ts.x, !.prev_ts = Some(base_ts.x),
                              !.flags = flags.x, !.pool = _StringPool_init],
                   _uvarint_decode(buf, base_ts.i))
      flag(flags) ==
        IF flags.err # "" THEN [err |-> flags.err, st |-> s0]
        ELSE base(flags, _uvarint_decode(buf, flags.i))
      version(ver) ==
        IF ver.err # "" THEN [err |-> ver.err, st |-> s0]
        ELSE IF ver.x # 3 THEN [err |-> "Unsupported V3 version", st |-> s0]
        ELSE flag(_uvarint_decode(buf, ver.i))
  IN version(_uvarint_decode(buf, i))

RECURSIVE dec_levels_loop(_, _, _, _)
dec_levels_loop(buf, i, n, pool) ==
  IF n = 0 THEN [err |-> "", out |-> <<>>, i |-> i, pool |-> pool]
  ELSE LET rest(p, s, r) ==
             [err |-> r.err, out |-> <<[price |-> p.s, size |-> s.s]>> \o r.out,
              i |-> r.i, pool |-> r.pool]
           size(p, s) ==
             IF s.err # "" THEN [err |-> s.err, out |-> <<>>, i |-> s.i, pool |-> s.pool]
             ELSE rest(p, s, dec_levels_loop(buf, s.i, n - 1, s.pool))
           price(p) ==
             IF p.err # "" THEN [err |-> p.err, out |-> <<>>, i |-> p.i, pool |-> p.pool]
             ELSE size(p, pool_decode(p.pool, buf, p.i))
       IN price(pool_decode(pool, buf, i))

_dec_levels(buf, i, pool) ==
  LET count(n) ==
        IF n.err # "" THEN [err |-> n.err, out |-> <<>>, i |-> n.i, pool |-> pool]
        ELSE dec_levels_loop(buf, n.i, n.x, pool)
  IN count(_uvarint_decode(buf, i))

dec_side(b) == IF b = 1 THEN "SELL" ELSE "BUY"

RECURSIVE dec_changes_loop(_, _, _, _)
dec_changes_loop(buf, i, n, pool) ==
  IF n = 0 THEN [err |-> "", out |-> <<>>, i |-> i, pool |-> pool]
  ELSE IF i >= Len(buf)
  THEN [err |-> "IndexError", out |-> <<>>, i |-> i, pool |-> pool]
  ELSE
  LET rest(p, s, r) ==
        [err |-> r.err,
         out |-> <<[side |-> dec_side(buf[i + 1]), price |-> p.s, size |-> s.s]>>
                 \o r.out,
         i |-> r.i, pool |-> r.pool]
      size(p, s) ==
        IF s.err # "" THEN [err |-> s.err, out |-> <<>>, i |-> s.i, pool |-> s.pool]
        ELSE rest(p, s, dec_changes_loop(buf, s.i, n - 1, s.pool))
      price(p) ==
        IF p.err # "" THEN [err |-> p.err, out |-> <<>>, i |-> p.i, pool |-> p.pool]
        ELSE size(p, pool_decode(p.pool, buf, p.i))
  IN price(pool_decode(pool, buf, i + 1))

\* decode_ts without the TS_ABS test
decode_ts_always_delta(prev_ts, ts_abs, tsv) ==
  IF prev_ts = None THEN tsv ELSE prev_ts[1] + tsv

\* the timestamp part of _decode_event
decode_ts(prev_ts, ts_abs, tsv) ==
  IF ts_abs \/ prev_ts = None THEN tsv ELSE prev_ts[1] + tsv

\* the header of a decoded event
event_head(et, s0, ts) ==
  [event_type |-> et,
   asset_id |-> IF s0.asset_ids # <<>> THEN s0.asset_ids[1] ELSE "",
   timestamp |-> str_int(ts)]

\* the book payload of _decode_event
decode_book(buf, i, pool) ==
  LET asks(b, a) == [err |-> a.err, fields |-> [bids |-> b.out, asks |-> a.out],
                     i |-> a.i, pool |-> a.pool]
      bids(b) ==
        IF b.err # "" THEN [err |-> b.err, fields |-> <<>>, i |-> b.i, pool |-> b.pool]
        ELSE asks(b, _dec_levels(buf, b.i, b.pool))
  IN bids(_dec_levels(buf, i, pool))

\* the price_change payload of _decode_event
decode_price_change(buf, i, pool) ==
  LET changes(c) == [err |-> c.err, fields |-> [changes |-> c.out],
                     i |-> c.i, pool |-> c.pool]
      count(n) ==
        IF n.err # "" THEN [err |-> n.err, fields |-> <<>>, i |-> n.i, pool |-> pool]
        ELSE changes(dec_changes_loop(buf, n.i, n.x, pool))
  IN count(_uvarint_decode(buf, i))

\* the tick_size_change payload of _decode_event
decode_tick_size_change(buf, i, pool) ==
  LET new(o, n) == [err |-> n.err,
                    fields |-> [old_tick_size |-> o.s, new_tick_size |-> n.s],
                    i |-> n.i, pool |-> n.pool]
      old(o) ==
        IF o.err # "" THEN [err |-> o.err, fields |-> <<>>, i |-> o.i, pool |-> o.pool]
        ELSE new(o, pool_decode(o.pool, buf, o.i))
  IN old(pool_decode(pool, buf, i))

\* the last_trade_price payload of _decode_event
decode_last_trade_price(tb, buf, i, pool) ==
  LET fee(p, s, f) ==
        [err |-> f.err,
         fields |-> [price |-> p.s, size |-> s.s, side |-> dec_side(buf[s.i + 1]),
                     fee_rate_bps |-> f.s],
         i |-> f.i, pool |-> f.pool]
      size(p, s) ==
        IF s.err # "" THEN [err |-> s.err, fields |-> <<>>, i |-> s.i, pool |-> s.pool]
        ELSE IF s.i >= Len(buf)
        THEN [err |-> "IndexError", fields |-> <<>>, i |-> s.i, pool |-> s.pool]
        ELSE IF bit_set(tb, _TB_OPT0)
        THEN fee(p, s, pool_decode(s.pool, buf, s.i + 1))
        ELSE [err |-> "",
              fields |-> [price |-> p.s, size |-> s.s,
                          side |-> dec_side(buf[s.i + 1])],
              i |-> s.i + 1, pool |-> s.pool]
      price(p) ==
        IF p.err # "" THEN [err |-> p.err, fields |-> <<>>, i |-> p.i, pool |-> p.pool]
        ELSE size(p, pool_decode(p.pool, buf, p.i))
  IN price(pool_decode(pool, buf, i))

\* the payload of _decode_event: [err, fields, i, pool]
decode_payload(et, tb, buf, i, pool) ==
  CASE et = "book" -> decode_book(buf, i, pool)
    [] et = "price_change" -> decode_price_change(buf, i, pool)
    [] et = "tick_size_change" -> decode_tick_size_change(buf, i, pool)
    [] et = "last_trade_price" -> decode_last_trade_price(tb, buf, i, pool)

\* the event code taken from the low five bits of the type byte
et_code_low5(tb) == tb % 32

\* et_code = tb & 0x07
et_code_of(tb) == tb % 8

_decode_event(buf, i, s0) ==
  IF i >= Len(buf) THEN [err |-> "IndexError", obj |-> <<>>, i |-> i, st |-> s0]
  ELSE IF et_code_of(buf[i + 1]) + 1 \notin DOMAIN _ET_FROM
  THEN [err |-> "Unknown event type code", obj |-> <<>>, i |-> i + 1, st |-> s0]
  ELSE
  LET payload(et, ts, pl) ==
        IF pl.err # ""
        THEN [err |-> pl.err, obj |-> <<>>, i |-> pl.i,
              st |-> [s0 EXCEPT !.prev_ts = Some(ts), !.pool = pl.pool]]
        ELSE [err |-> "",
              obj |-> [t |-> "obj", v |-> event_head(et, s0, ts) @@ pl.fields],
              i |-> pl.i,
              st |-> [s0 EXCEPT !.prev_ts = Some(ts), !.pool = pl.pool]]
      stamp(et, tsv, ts) ==
        payload(et, ts, decode_payload(et, buf[i + 1], buf, tsv.i, s0.pool))
      varint(et, tsv) ==
        IF tsv.err # "" THEN [err |-> tsv.err, obj |-> <<>>, i |-> tsv.i, st |-> s0]
        ELSE stamp(et, tsv,
                   decode_ts(s0.prev_ts, bit_set(buf[i + 1], _TB_TS_ABS), tsv.x))
  IN varint(_ET_FROM[et_code_of(buf[i + 1]) + 1], _uvarint_decode(buf, i + 1))

RECURSIVE decode_events_loop(_, _, _, _)
decode_events_loop(buf, i, n, s0) ==
  IF n = 0 THEN [err |-> "", arr |-> <<>>, i |-> i, st |-> s0]
  ELSE LET rest(e, r) == [err |-> r.err, arr |-> <<e.obj>> \o r.arr, i |-> r.i,
                          st |-> r.st]
           first(e) ==
             IF e.err # "" THEN [err |-> e.err, arr |-> <<>>, i |-> e.i, st |-> e.st]
             ELSE rest(e, decode_events_loop(buf, e.i, n - 1, e.st))
       IN first(_decode_event(buf, i, s0))

\* js is the JSON text json.dumps(arr)
_decode_frame(buf, i, s0) ==
  LET events(r) == [err |-> r.err,
                    js |-> [t |-> "json", v |-> [t |-> "arr", v |-> r.arr]],
                    st |-> r.st]
      count(cnt) ==
        IF cnt.err # "" THEN [err |-> cnt.err, js |-> <<>>, st |-> s0]
        ELSE events(decode_events_loop(buf, cnt.i, cnt.x, s0))
  IN count(_uvarint_decode(buf, i))

_decode_raw(buf, i, s0) ==
  LET text(p) == [err |-> p.err,
                  js |-> [t |-> "json", v |-> [t |-> "str", v |-> p.s]],
                  st |-> [s0 EXCEPT !.pool = p.pool]]
  IN text(pool_decode(s0.pool, buf, i))

\* decode_record that reads every unknown record kind as a raw record
decode_record_kind_blind(buf, s0) ==
  LET header(h) == [notv3 |-> FALSE, err |-> h.err, outs |-> <<>>, st |-> h.st]
      record(f) == [notv3 |-> FALSE, err |-> f.err,
                    outs |-> IF f.err = "" THEN <<f.js>> ELSE <<>>, st |-> f.st]
  IN CASE buf[1] = _REC_HEADER -> header(_decode_header(buf, 1, s0))
       [] buf[1] = _REC_FRAME -> record(_decode_frame(buf, 1, s0))
       [] OTHER -> record(_decode_raw(buf, 1, s0))

\* the dispatch of _try_decode_v3_line on the record kind of the inflated
\* buffer
decode_record(buf, s0) ==
  LET header(h) == [notv3 |-> FALSE, err |-> h.err, outs |-> <<>>, st |-> h.st]
      record(f) == [notv3 |-> FALSE, err |-> f.err,
                    outs |-> IF f.err = "" THEN <<f.js>> ELSE <<>>, st |-> f.st]
  IN CASE buf[1] = _REC_HEADER -> header(_decode_header(buf, 1, s0))
       [] buf[1] = _REC_FRAME -> record(_decode_frame(buf, 1, s0))
       [] buf[1] = _REC_RAW -> record(_decode_raw(buf, 1, s0))
       [] OTHER -> [notv3 |-> TRUE, err |-> "", outs |-> <<>>, st |-> s0]

\* notv3 is the return value None; outs is the returned list otherwise
_try_decode_v3_line(token, s0) ==
  LET inflated(inf) ==
        IF inf.err # "" \/ inf.buf = <<>>
        THEN [notv3 |-> TRUE, err |-> "", outs |-> <<>>, st |-> s0]
        ELSE decode_record(inf.buf, s0)
  IN inflated(_inflate_raw_b64(token))

(***************************************************************************)
(* Legacy/tolerant paths and reinflate_file.                               *)
(***************************************************************************)

\* the keys of the model's dicts whose values are JSON containers; the
\* values of all other keys are strings, numbers or lists of price levels,
\* which hold no "market" or "hash" key
ContainerKeys == {"m"}

RECURSIVE _strip_keys(_)

\* _strip_keys that leaves the values of a dict as they are
_strip_keys_top(d) ==
  CASE d.t = "obj" ->
         [t |-> "obj", v |-> [k \in (DOMAIN d.v) \ {"market", "hash"} |-> d.v[k]]]
    [] d.t = "arr" ->
         [t |-> "arr",
          v |-> [k \in 1..Len(d.v) |->
                   IF d.v[k].t = "obj"
                   THEN [t |-> "obj",
                         v |-> [f \in (DOMAIN d.v[k].v) \ {"market", "hash"} |->
                                  d.v[k].v[f]]]
                   ELSE d.v[k]]]
    [] OTHER -> d

_strip_keys(d) ==
  CASE d.t = "obj" ->
         [t |-> "obj",
          v |-> [k \in (DOMAIN d.v) \ {"market", "hash"} |->
                   IF k \in ContainerKeys THEN _strip_keys(d.v[k]) ELSE d.v[k]]]
    [] d.t = "arr" ->
         [t |-> "arr", v |-> [k \in 1..Len(d.v) |-> _strip_keys(d.v[k])]]
    [] OTHER -> d

\* json.dumps(value, separators=(",", ":"))
json_dumps(value) == [t |-> "json", v |-> value]

\* json.dumps of a str held as a text
json_dumps_str(text) ==
  IF text.t = "raw" THEN json_dumps([t |-> "str", v |-> text.v])
  ELSE json_dumps([t |-> "strtext", v |-> text])

\* base64.urlsafe_b64decode + zlib.decompress + json.loads of the legacy
\* path: only the base64 of a zlib stream of JSON text ("zb64") passes
legacy_decode(text) ==
  IF text.t = "zb64" THEN [ok |-> TRUE, value |-> text.v]
  ELSE [ok |-> FALSE, value |-> <<>>]

\* None is <<>>, a result is <<text>>
_maybe_json_value(line) ==
  IF line.t # "json" THEN None
  ELSE IF line.v.t \in {"obj", "arr"} THEN Some(json_dumps(_strip_keys(line.v)))
  ELSE IF line.v.t = "str" THEN Some(json_dumps(line.v))
  ELSE IF line.v.t = "strtext"
  THEN IF line.v.v.t = "json" /\ line.v.v.v.t \in {"obj", "arr"}
       THEN Some(json_dumps(_strip_keys(line.v.v.v)))
       ELSE Some(json_dumps(line.v))
  ELSE None

\* the items of a parsed JSON array as Python values: a JSON string is a
\* str, whose content is the text it holds
loaded_items(items) ==
  [k \in 1..Len(items) |->
     CASE items[k].t = "str" -> [t |-> "raw", v |-> items[k].v]
       [] items[k].t = "strtext" -> items[k].v
       [] OTHER -> items[k]]

\* the entries of the input file f, a sequence of lines
_iter_any_entries(f) ==
  IF Len(f) = 1 /\ f[1].t = "json" /\ f[1].v.t = "arr" THEN loaded_items(f[1].v.v)
  ELSE f

IsStr(entry) == entry.t \in {"raw", "json", "b64", "zb64"}

\* the "m" and plain-dict branches of yield_json_values on a dict entry
yield_dict_plain(e, s0) ==
  IF "m" \in DOMAIN e
  THEN IF e["m"].t = "obj" /\ "_raw" \in DOMAIN e["m"].v
       THEN [err |-> "",
             outs |-> <<json_dumps([t |-> "str", v |-> e["m"].v["_raw"]])>>,
             st |-> s0]
       ELSE [err |-> "", outs |-> <<json_dumps(_strip_keys(e["m"]))>>, st |-> s0]
  ELSE [err |-> "",
        outs |-> <<json_dumps(_strip_keys([t |-> "obj", v |-> e]))>>,
        st |-> s0]

\* the "compressed" branch of yield_json_values on a dict entry
yield_dict_compressed(e, s0) ==
  LET v3(k) == IF ~k.notv3 THEN [err |-> k.err, outs |-> k.outs, st |-> k.st]
               ELSE yield_dict_plain(e, s0)
  IN IF "compressed" \in DOMAIN e THEN v3(_try_decode_v3_line(e["compressed"], s0))
     ELSE yield_dict_plain(e, s0)

\* one iteration of the loop of yield_json_values on a dict entry
yield_dict(e, s0) ==
  LET legacy(cl) ==
        IF cl.ok
        THEN [err |-> "", outs |-> <<json_dumps(_strip_keys(cl.value))>>, st |-> s0]
        ELSE yield_dict_compressed(e, s0)
      v3(c) == IF ~c.notv3 THEN [err |-> c.err, outs |-> c.outs, st |-> c.st]
               ELSE legacy(legacy_decode(e["c"]))
  IN IF "c" \in DOMAIN e THEN v3(_try_decode_v3_line(e["c"], s0))
     ELSE yield_dict_compressed(e, s0)

\* one iteration of the loop of yield_json_values on a str entry
yield_str(entry, s0) ==
  LET parsed(j) ==
        IF j # None THEN [err |-> "", outs |-> j, st |-> s0]
        ELSE [err |-> "", outs |-> <<json_dumps_str(entry)>>, st |-> s0]
      legacy(l) ==
        IF l.ok
        THEN [err |-> "", outs |-> <<json_dumps(_strip_keys(l.value))>>, st |-> s0]
        ELSE parsed(_maybe_json_value(entry))
      v3(m) == IF ~m.notv3 THEN [err |-> m.err, outs |-> m.outs, st |-> m.st]
               ELSE legacy(legacy_decode(entry))
  IN v3(_try_decode_v3_line(entry, s0))

\* one iteration of the loop of yield_json_values: the values yielded for
\* entry, the decoder state afterwards, err # "" when the iteration raised
yield_json_values(entry, s0) ==
  IF entry.t = "obj" THEN yield_dict(entry.v, s0)
  ELSE IF IsStr(entry) THEN yield_str(entry, s0)
  ELSE [err |-> "", outs |-> <<json_dumps(_strip_keys(entry))>>, st |-> s0]

(***************************************************************************)
(* The frames the websocket delivers.                                      *)
(***************************************************************************)

AssetId == "A"
Epochs == {1700}

Obj(f) == [t |-> "obj", v |-> f]
Arr(q) == [t |-> "arr", v |-> q]
JsonText(value) == [t |-> "json", v |-> value]
RawText(x) == [t |-> "raw", v |-> x]

EvBook100 ==
  Obj([event_type |-> "book", asset_id |-> "A", market |-> "m", hash |-> "h",
       timestamp |-> "100",
       bids |-> <<[price |-> "0.5", size |-> "10"]>>,
       asks |-> <<[price |-> "0.6", size |-> "10"]>>])
EvPc150 ==
  Obj([event_type |-> "price_change", asset_id |-> "A", timestamp |-> "150",
       changes |-> <<[side |-> "sell", price |-> "0.5", size |-> "0"]>>])
EvLtp300 ==
  Obj([event_type |-> "last_trade_price", asset_id |-> "A", timestamp |-> "300",
       price |-> "0.5", size |-> "0", side |-> "sell"])
EvLtp90Fee ==
  Obj([event_type |-> "last_trade_price", asset_id |-> "A", market |-> "m",
       timestamp |-> "90", price |-> "0.6", size |-> "10", side |-> "BUY",
       fee_rate_bps |-> "25"])
EvBookAlias300 ==
  Obj([event_type |-> "book", asset_id |-> "A", hash |-> "h", timestamp |-> "300",
       buys |-> <<[price |-> "0.6", size |-> "0"]>>, sells |-> <<>>])
EvPc100 ==
  Obj([event_type |-> "price_change", asset_id |-> "A", timestamp |-> "100",
       changes |-> <<[side |-> "BUY", price |-> "0.6", size |-> "0"]>>])
EvFoo == Obj([event_type |-> "foo", asset_id |-> "A", timestamp |-> "abc"])
EvTickNoTs ==
  Obj([event_type |-> "tick_size_change", asset_id |-> "A",
       old_tick_size |-> "0.5", new_tick_size |-> "0.6"])
EvLtpNeg ==
  Obj([event_type |-> "last_trade_price", asset_id |-> "A", timestamp |-> "-5",
       price |-> "0.5", size |-> "10", side |-> "BUY"])

Frames ==
  { JsonText(Arr(<<EvBook100>>)),
    JsonText(Arr(<<EvPc150, EvLtp300>>)),
    JsonText(Arr(<<EvLtp90Fee>>)),
    JsonText(EvBookAlias300),
    JsonText(Arr(<<EvPc100, EvFoo>>)),
    JsonText(Arr(<<EvTickNoTs>>)),
    JsonText(Arr(<<EvTickNoTs, EvPc150>>)),
    RawText("PONG"),
    JsonText(Arr(<<EvLtpNeg>>)),
    JsonText(Arr(<<>>)),
    JsonText([t |-> "num", v |-> 7]) }

(***************************************************************************)
(* MarketSubscriber._on_message and the run of reinflate_file.             *)
(***************************************************************************)

\* json.loads(message), or {"_raw": message} when it raises
payload_of(message) ==
  IF message.t = "json" THEN message.v ELSE Obj("_raw" :> message.v)

m_wrapper(epoch_ms, message) ==
  JsonText(Obj([t |-> epoch_ms, a |-> AssetId, m |-> payload_of(message)]))

c_wrapper(epoch_ms, item) ==
  JsonText(Obj([t |-> epoch_ms, a |-> AssetId, c |-> item]))

\* the lines _on_message appends to the file, given the result r of compress
on_message_lines(md, epoch_ms, message, r) ==
  IF md = "raw" THEN <<m_wrapper(epoch_ms, message)>>
  ELSE IF r.err # "" THEN <<m_wrapper(epoch_ms, message)>>
  ELSE IF md = "compact" THEN r.ret
  ELSE [k \in 1..Len(r.ret) |-> c_wrapper(epoch_ms, r.ret[k])]

MAX_BACKOFF_SEC == 60

min(a, b) == IF a < b THEN a ELSE b

\* run_forever before its loop: _stop is clear, backoff is 1.0 and the
\* first connection is made; asked records that stop() was called or an
\* interrupt delivered
run_forever_init ==
  [stop |-> FALSE, backoff |-> 1, connects |-> 1, asked |-> FALSE]

\* run_forever from the return of ws.run_forever(): the finally clause
\* sets _stop; the loop is left if _stop is set; otherwise the backoff is
\* slept, doubled up to MAX_BACKOFF_SEC, _stop is cleared and the next
\* connection is made
after_connection(l) ==
  LET tested(f) ==
        IF f.stop THEN [left |-> TRUE, loop |-> f]
        ELSE [left |-> FALSE,
              loop |-> [f EXCEPT !.stop = FALSE,
                                 !.backoff = min(f.backoff * 2, MAX_BACKOFF_SEC),
                                 !.connects = f.connects + 1]]
  IN tested([l EXCEPT !.stop = TRUE])


Init ==
  /\ comp = FrameCompressorV3_init(AssetId)
  /\ calls = <<>>
  /\ file = <<>>
  /\ mode \in {"compact", "jsonl", "raw"}
  /\ phase = "log"
  /\ container = "lines"
  /\ ndjson = TRUE
  /\ entries = <<>>
  /\ rpos = 0
  /\ st = _V3State_init
  /\ outputs = <<>>
  /\ written = <<>>
  /\ pc = "idle"
  /\ pending = <<>>
  /\ closed = FALSE
  /\ loop = run_forever_init
  /\ insts = <<>>
  /\ hist = <<>>
  /\ tools = [cli |-> "", py7zr |-> FALSE]
  /\ disk = <<>>
  /\ last = <<>>
  /\ UnitIdle

\* the writes of _on_message, given the result r of compress
write_lines(message, r, lines) ==
  /\ comp' = r.self
  /\ file' = file \o lines
  /\ calls' = Append(calls, [frame |-> message, err |-> r.err, ret |-> r.ret,
                             toks |-> r.toks, self |-> r.self,
                             nlines |-> Len(file) + Len(lines)])

\* _on_message(ws, message)
OnMessage(message, epoch_ms) ==
  /\ phase = "log"
  /\ Len(calls) < MaxFrames
  /\ LET compressed(r) ==
           write_lines(message, r, on_message_lines(mode, epoch_ms, message, r))
     IN compressed(IF mode = "raw"
                   THEN [err |-> "", self |-> comp, ret |-> <<>>, toks |-> <<>>]
                   ELSE compress(comp, message))
  /\ UNCHANGED <<mode, phase, container, ndjson, entries, rpos, st, outputs, written>>
  /\ UNCHANGED <<logger_vars, inst_vars, archive_vars, unit_vars>>

\* the records of the log as the items of one JSON array
as_array(f) ==
  <<JsonText(Arr([k \in 1..Len(f) |-> IF f[k].t = "json" THEN f[k].v ELSE f[k]]))>>

\* reinflate_file(input_path, output_path, ndjson) is called: on the log
\* itself or on a JSON array of the log's records
ReinflateStart(c, nd) ==
  /\ phase = "log"
  /\ phase' = "reinflate"
  /\ container' = c
  /\ ndjson' = nd
  /\ entries' = _iter_any_entries(IF c = "array" THEN as_array(file) ELSE file)
  /\ rpos' = 0
  /\ st' = _V3State_init
  /\ outputs' = <<>>
  /\ written' = <<>>
  /\ UNCHANGED <<comp, calls, file, mode>>
  /\ UNCHANGED <<logger_vars, inst_vars, archive_vars, unit_vars>>

\* one entry of the input goes through yield_json_values; in NDJSON mode
\* each yielded value is written at once
ReinflateEntry ==
  /\ phase = "reinflate"
  /\ rpos < Len(entries)
  /\ LET yielded(r) ==
           /\ st' = r.st
           /\ phase' = IF r.err # "" THEN "crashed" ELSE phase
           /\ rpos' = IF r.err # "" THEN rpos ELSE rpos + 1
           /\ outputs' = IF r.err # "" THEN outputs ELSE outputs \o r.outs
           /\ written' = IF r.err = "" /\ ndjson THEN written \o r.outs ELSE written
     IN yielded(yield_json_values(entries[rpos + 1], st))
  /\ UNCHANGED <<comp, calls, file, mode, container, ndjson, entries>>
  /\ UNCHANGED <<logger_vars, inst_vars, archive_vars, unit_vars>>

\* the input is exhausted: the array output is written, the file is closed
ReinflateEnd ==
  /\ phase = "reinflate"
  /\ rpos = Len(entries)
  /\ phase' = "done"
  /\ written' = IF ndjson THEN written ELSE <<JsonText(Arr(outputs))>>
  /\ UNCHANGED <<comp, calls, file, mode, container, ndjson, entries, rpos, st, outputs>>
  /\ UNCHANGED <<logger_vars, inst_vars, archive_vars, unit_vars>>

Next ==
  \/ \E message \in Frames, epoch_ms \in Epochs : OnMessage(message, epoch_ms)
  \/ \E c \in {"lines", "array"}, nd \in BOOLEAN : ReinflateStart(c, nd)
  \/ ReinflateEntry
  \/ ReinflateEnd

Spec == Init /\ [][Next]_vars

(***************************************************************************)
(* reinflate_file on mixed logs: the input holds V3 sessions, legacy       *)
(* lines, wrappers and foreign lines in any order.                         *)
(***************************************************************************)

\* number of pieces an input file is put together from
MaxChunks == 2

\* the lines of a logger session: a book frame and a frame of two events
SessionA1 == compress(FrameCompressorV3_init(AssetId), JsonText(Arr(<<EvBook100>>)))
SessionA2 == compress(SessionA1.self, JsonText(Arr(<<EvPc150, EvLtp300>>)))
StreamA == SessionA1.ret \o SessionA2.ret

\* the lines of a logger session of two heartbeats
SessionB1 == compress(FrameCompressorV3_init(AssetId), RawText("PONG"))
SessionB2 == compress(SessionB1.self, RawText("PONG"))
StreamB == SessionB1.ret \o SessionB2.ret

\* tokens that inflate to nothing, to an unknown record kind, to a frame of
\* no events, to a header of version 4
EmptyToken == _deflate_raw_b64(<<>>)
UnknownKind == _deflate_raw_b64(<<90, 1>>)
EmptyFrame == _deflate_raw_b64(<<_REC_FRAME, 0>>)
BadVersion == _deflate_raw_b64(<<_REC_HEADER, 4, 1, 0, 0>>)

\* base64 of the zlib stream of a JSON array (legacy compact line)
LegacyLine ==
  [t |-> "zb64",
   v |-> Arr(<<Obj([event_type |-> "book", market |-> "m", price |-> "0.5"])>>)]

\* a JSON object with market and hash at two depths
NestedObject ==
  Obj([market |-> "m", price |-> "0.5",
       m |-> Obj([hash |-> "h", size |-> "10",
                  m |-> Arr(<<Obj([market |-> "m", size |-> "0"])>>)])])

\* a JSON string whose content is a JSON object
StringOfJson ==
  JsonText([t |-> "strtext",
            v |-> JsonText(Obj([market |-> "m", price |-> "0.6"]))])

Wrapped(key, text) == JsonText(Obj(key :> text))

\* the pieces of an input file
Chunks ==
  { StreamA, StreamB, SessionA2.ret,
    <<EmptyToken>>, <<UnknownKind>>, <<EmptyFrame>>, <<BadVersion>>,
    <<LegacyLine>>,
    <<JsonText(NestedObject)>>,
    <<JsonText(Arr(<<NestedObject>>))>>,
    <<StringOfJson>>,
    <<JsonText([t |-> "str", v |-> "PONG"])>>,
    <<RawText("PONG")>>,
    <<JsonText([t |-> "num", v |-> 7])>>,
    <<c_wrapper(1700, SessionA1.ret[1]), c_wrapper(1700, SessionA1.ret[2])>>,
    <<Wrapped("c", LegacyLine)>>,
    <<Wrapped("compressed", LegacyLine)>>,
    <<Wrapped("compressed", SessionB1.ret[1]),
      Wrapped("compressed", SessionB1.ret[2])>>,
    <<m_wrapper(1700, RawText("PONG"))>>,
    <<m_wrapper(1700, JsonText(Arr(<<EvBook100>>)))>> }

RECURSIVE InputFiles(_)
InputFiles(n) ==
  IF n = 0 THEN {<<>>}
  ELSE InputFiles(n - 1)
       \cup {f \o c : f \in InputFiles(n - 1), c \in Chunks}

InitTolerant ==
  /\ comp = FrameCompressorV3_init(AssetId)
  /\ calls = <<>>
  /\ file \in InputFiles(MaxChunks)
  /\ mode = "compact"
  /\ phase = "log"
  /\ container = "lines"
  /\ ndjson = TRUE
  /\ entries = <<>>
  /\ rpos = 0
  /\ st = _V3State_init
  /\ outputs = <<>>
  /\ written = <<>>
  /\ pc = "idle"
  /\ pending = <<>>
  /\ closed = FALSE
  /\ loop = run_forever_init
  /\ insts = <<>>
  /\ hist = <<>>
  /\ tools = [cli |-> "", py7zr |-> FALSE]
  /\ disk = <<>>
  /\ last = <<>>
  /\ UnitIdle

NextTolerant ==
  \/ \E c \in {"lines", "array"}, nd \in BOOLEAN : ReinflateStart(c, nd)
  \/ ReinflateEntry
  \/ ReinflateEnd

SpecTolerant == InitTolerant /\ [][NextTolerant]_vars

(***************************************************************************)
(* Several FrameCompressorV3 objects in one process.  Every attribute of   *)
(* a compressor, its pool included, is created in __init__ and held in the *)
(* object's own slots; a call reads and writes the object it is made on.   *)
(***************************************************************************)

\* the most calls made on one compressor
MaxCalls == 2

Instances == {"x", "y"}

\* changes without side and with sides in other spellings, and a trade
\* without side
EvPcSides ==
  Obj([event_type |-> "price_change", asset_id |-> "A", timestamp |-> "300",
       changes |-> <<[price |-> "0.5", size |-> "10"],
                     [side |-> "Sell", price |-> "0.6", size |-> "0"],
                     [side |-> "ask", price |-> "0.6", size |-> "0"]>>])
EvLtpNoSide ==
  Obj([event_type |-> "last_trade_price", asset_id |-> "A", timestamp |-> "300",
       price |-> "0.5", size |-> "10"])

\* the frames the compressors are fed
InstanceFrames ==
  { JsonText(Arr(<<EvBook100>>)),
    JsonText(Arr(<<EvPcSides, EvLtpNoSide>>)),
    JsonText(Arr(<<EvPc150, EvLtp300>>)),
    JsonText(Arr(<<EvLtp90Fee>>)),
    JsonText(Arr(<<EvPc100, EvFoo>>)),
    RawText("PONG") }

\* a call on object i left it in state self, and the pool it wrote is the
\* pool of every object
store_shared_pool(heap, i, self) ==
  [j \in DOMAIN heap |-> IF j = i THEN self ELSE [heap[j] EXCEPT !.pool = self.pool]]

\* a call on object i left it in state self: the attributes written are
\* those of object i alone
store(heap, i, self) ==
  [heap EXCEPT ![i] = self]

\* one compressor per name, each built by FrameCompressorV3(asset_id)
InitInstances ==
  /\ comp = FrameCompressorV3_init(AssetId)
  /\ calls = <<>>
  /\ file = <<>>
  /\ mode = "compact"
  /\ phase = "log"
  /\ container = "lines"
  /\ ndjson = TRUE
  /\ entries = <<>>
  /\ rpos = 0
  /\ st = _V3State_init
  /\ outputs = <<>>
  /\ written = <<>>
  /\ pc = "idle"
  /\ pending = <<>>
  /\ closed = FALSE
  /\ loop = run_forever_init
  /\ insts = [i \in Instances |-> FrameCompressorV3_init(AssetId)]
  /\ hist = [i \in Instances |-> <<>>]
  /\ tools = [cli |-> "", py7zr |-> FALSE]
  /\ disk = <<>>
  /\ last = <<>>
  /\ UnitIdle

\* insts[i].compress(message)
CompressOn(i, message) ==
  /\ Len(hist[i]) < MaxCalls
  /\ LET called(r) ==
           /\ insts' = store(insts, i, r.self)
           /\ hist' = [hist EXCEPT ![i] = Append(@, [frame |-> message,
                                                    err |-> r.err, ret |-> r.ret])]
     IN called(compress(insts[i], message))
  /\ UNCHANGED <<comp, calls, file, mode, phase, container, ndjson, entries, rpos,
                 st, outputs, written>>
  /\ UNCHANGED <<logger_vars, archive_vars, unit_vars>>

NextInstances ==
  \E i \in Instances, message \in InstanceFrames : CompressOn(i, message)

SpecInstances == InitInstances /\ [][NextInstances]_vars

(***************************************************************************)
(* The logger process line by line.  ws.run_forever() runs on the main     *)
(* thread and calls _on_message there, one frame after the other; the      *)
(* ping thread only sends PING; the handler of SIGINT and SIGTERM runs on  *)
(* the main thread between any two steps of it, calls stop() and then      *)
(* sys.exit(0).  Each write_line / write_json takes the writer's lock,     *)
(* writes one line, flushes and fsyncs, and releases the lock.             *)
(***************************************************************************)

\* the dispatcher calls _on_message from any position of the main thread
dispatch_unordered(p) == p # "stopped"

\* the dispatcher calls _on_message for the next frame when the call for
\* the previous one has returned
dispatch_ready(p) == p = "idle"

InitLogger ==
  /\ comp = FrameCompressorV3_init(AssetId)
  /\ calls = <<>>
  /\ file = <<>>
  /\ mode \in {"compact", "jsonl", "raw"}
  /\ phase = "log"
  /\ container = "lines"
  /\ ndjson = TRUE
  /\ entries = <<>>
  /\ rpos = 0
  /\ st = _V3State_init
  /\ outputs = <<>>
  /\ written = <<>>
  /\ pc = "idle"
  /\ pending = <<>>
  /\ closed = FALSE
  /\ loop = run_forever_init
  /\ insts = <<>>
  /\ hist = <<>>
  /\ tools = [cli |-> "", py7zr |-> FALSE]
  /\ disk = <<>>
  /\ last = <<>>
  /\ UnitIdle

\* _on_message(ws, message) is entered and takes the time
OnMessageEnter(message, epoch_ms) ==
  /\ dispatch_ready(pc)
  /\ Len(calls) < MaxFrames
  /\ pc' = "compress"
  /\ calls' = Append(calls, [frame |-> message, epoch_ms |-> epoch_ms, err |-> "",
                             ret |-> <<>>, lines |-> <<>>, done |-> FALSE])
  /\ pending' = <<>>
  /\ UNCHANGED <<comp, file, mode, closed, loop>>
  /\ UNCHANGED <<phase, container, ndjson, entries, rpos, st, outputs, written>>
  /\ UNCHANGED <<inst_vars, archive_vars, unit_vars>>

\* the lines the running call has to write are fixed: compression_fn has
\* returned or raised, or there is none
compressed_to(r, lines) ==
  /\ comp' = r.self
  /\ pending' = lines
  /\ calls' = [calls EXCEPT ![Len(calls)] =
                 [@ EXCEPT !.err = r.err, !.ret = r.ret, !.lines = lines]]

\* self.compression_fn(message), and the choice of what to write
OnMessageCompress ==
  /\ pc = "compress"
  /\ pc' = "write"
  /\ LET returned(c, r) ==
           compressed_to(r, on_message_lines(mode, c.epoch_ms, c.frame, r))
         run(c) ==
           returned(c, IF mode = "raw"
                       THEN [err |-> "", self |-> comp, ret |-> <<>>, toks |-> <<>>]
                       ELSE compress(comp, c.frame))
     IN run(calls[Len(calls)])
  /\ UNCHANGED <<file, mode, closed, loop>>
  /\ UNCHANGED <<phase, container, ndjson, entries, rpos, st, outputs, written>>
  /\ UNCHANGED <<inst_vars, archive_vars, unit_vars>>

\* one self.out.write_line(item) or self.out.write_json(obj); after the
\* last one _on_message returns
OnMessageWrite ==
  /\ pc = "write"
  /\ pending # <<>>
  /\ ~closed
  /\ file' = Append(file, Head(pending))
  /\ pending' = Tail(pending)
  /\ pc' = IF Len(pending) = 1 THEN "idle" ELSE "write"
  /\ calls' = [calls EXCEPT ![Len(calls)].done = (Len(pending) = 1)]
  /\ UNCHANGED <<comp, mode, closed, loop>>
  /\ UNCHANGED <<phase, container, ndjson, entries, rpos, st, outputs, written>>
  /\ UNCHANGED <<inst_vars, archive_vars, unit_vars>>

\* SIGINT or SIGTERM: handle_sig calls sub.stop(), which closes the socket
\* and the writer, and sys.exit(0) unwinds the main thread from where it is
HandleSig ==
  /\ pc # "stopped"
  /\ pc' = "stopped"
  /\ closed' = TRUE
  /\ loop' = [loop EXCEPT !.stop = TRUE, !.asked = TRUE]
  /\ UNCHANGED <<comp, calls, file, mode, pending>>
  /\ UNCHANGED <<phase, container, ndjson, entries, rpos, st, outputs, written>>
  /\ UNCHANGED <<inst_vars, archive_vars, unit_vars>>

\* the connection ends: ws.run_forever() returns and run_forever goes on
\* from there; when it leaves its loop the writer is closed
Disconnect ==
  /\ pc = "idle"
  /\ LET went_on(r) ==
           /\ pc' = IF r.left THEN "stopped" ELSE "idle"
           /\ closed' = r.left
           /\ loop' = r.loop
     IN went_on(after_connection(loop))
  /\ UNCHANGED <<comp, calls, file, mode, pending>>
  /\ UNCHANGED <<phase, container, ndjson, entries, rpos, st, outputs, written>>
  /\ UNCHANGED <<inst_vars, archive_vars, unit_vars>>

NextLogger ==
  \/ \E message \in Frames, epoch_ms \in Epochs : OnMessageEnter(message, epoch_ms)
  \/ OnMessageCompress
  \/ OnMessageWrite
  \/ HandleSig
  \/ Disconnect

SpecLogger == InitLogger /\ [][NextLogger]_vars

(***************************************************************************)
(* file_compress.py: compress_file and decompress_file over the three      *)
(* backends.  tools.cli is the 7-Zip binary shutil.which finds ("" for     *)
(* none; 7zr reads 7z archives only), tools.py7zr is _HAS_PY7ZR.  disk     *)
(* maps the paths that exist to their content; a password is "" for none.  *)
(***************************************************************************)

InputPath == "updates.v3"
OutDir == "out"
Passwords == {"", "s"}

Plain == [fmt |-> "plain", pw |-> ""]
Archive(fmt, pw) == [fmt |-> fmt, pw |-> pw]

\* the write of content c at path
put(d, path, c) == (path :> c) @@ d

\* Path(archive_path).suffix.lower()
suffix(path) ==
  CASE path = "updates.v3.7z" -> ".7z"
    [] path = "updates.v3.xz" -> ".xz"
    [] path = "a.bin" -> ".bin"
    [] OTHER -> ""

\* what a call gives back: the exception or the returned path, the disk it
\* leaves and the backends it ran
Raised(e, d, tried) == [err |-> e, out |-> "", disk |-> d, tried |-> tried]
Returned(path, d, tried) == [err |-> "", out |-> path, disk |-> d, tried |-> tried]

_find_7z_exe(t) == t.cli

_derive_archive_path(input_path, method) ==
  IF method = "xz" THEN input_path \o ".xz" ELSE input_path \o ".7z"

\* an archive opens with the password given when it has none or the same
opens_with(c, password) == c.pw = "" \/ c.pw = password

archive_path_or(archive_path, method) ==
  IF archive_path # "" THEN archive_path ELSE _derive_archive_path(InputPath, method)

\* 7z a: an archive already at the path is updated, which needs it to be a
\* 7z archive the password opens
compress_with_7z_cli(t, d, archive_path, password) ==
  IF _find_7z_exe(t) = "" THEN Raised("RuntimeError", d, <<>>)
  ELSE IF InputPath \notin DOMAIN d THEN Raised("FileNotFoundError", d, <<>>)
  ELSE IF /\ archive_path_or(archive_path, "7z") \in DOMAIN d
          /\ \/ d[archive_path_or(archive_path, "7z")].fmt # "7z"
             \/ ~opens_with(d[archive_path_or(archive_path, "7z")], password)
  THEN Raised("CalledProcessError", d, <<"7z-cli">>)
  ELSE Returned(archive_path_or(archive_path, "7z"),
                put(d, archive_path_or(archive_path, "7z"), Archive("7z", password)),
                <<"7z-cli">>)

decompress_with_7z_cli(t, d, archive_path, password) ==
  IF _find_7z_exe(t) = "" THEN Raised("RuntimeError", d, <<"7z-cli">>)
  ELSE IF archive_path \notin DOMAIN d THEN Raised("FileNotFoundError", d, <<"7z-cli">>)
  ELSE IF \/ d[archive_path].fmt = "7z" /\ opens_with(d[archive_path], password)
          \/ d[archive_path].fmt = "xz" /\ t.cli # "7zr"
  THEN Returned(OutDir, put(d, OutDir, Plain), <<"7z-cli">>)
  ELSE Raised("CalledProcessError", d, <<"7z-cli">>)

compress_with_py7zr(t, d, archive_path, password) ==
  IF ~t.py7zr THEN Raised("RuntimeError", d, <<>>)
  ELSE IF InputPath \notin DOMAIN d THEN Raised("FileNotFoundError", d, <<>>)
  ELSE Returned(archive_path_or(archive_path, "7z"),
                put(d, archive_path_or(archive_path, "7z"), Archive("7z", password)),
                <<"py7zr">>)

decompress_with_py7zr(t, d, archive_path, password) ==
  IF ~t.py7zr THEN Raised("RuntimeError", d, <<"py7zr">>)
  ELSE IF archive_path \notin DOMAIN d THEN Raised("FileNotFoundError", d, <<"py7zr">>)
  ELSE IF d[archive_path].fmt = "7z" /\ opens_with(d[archive_path], password)
  THEN Returned(OutDir, put(d, OutDir, Plain), <<"py7zr">>)
  ELSE Raised("Bad7zFile", d, <<"py7zr">>)

compress_with_xz(t, d, archive_path) ==
  IF InputPath \notin DOMAIN d THEN Raised("FileNotFoundError", d, <<>>)
  ELSE Returned(archive_path_or(archive_path, "xz"),
                put(d, archive_path_or(archive_path, "xz"), Archive("xz", "")),
                <<"xz">>)

\* the output file is opened for writing before the first block is read
decompress_xz(t, d, archive_path) ==
  IF archive_path \notin DOMAIN d THEN Raised("FileNotFoundError", d, <<"xz">>)
  ELSE IF d[archive_path].fmt = "xz"
  THEN Returned(OutDir, put(d, OutDir, Plain), <<"xz">>)
  ELSE Raised("LZMAError", put(d, OutDir, [fmt |-> "empty", pw |-> ""]), <<"xz">>)

\* the auto branch of compress_file with xz first
compress_auto_xz_first(t, d, archive_path, password) ==
  IF password = "" THEN compress_with_xz(t, d, archive_path)
  ELSE IF _find_7z_exe(t) # "" THEN compress_with_7z_cli(t, d, archive_path, password)
  ELSE IF t.py7zr THEN compress_with_py7zr(t, d, archive_path, password)
  ELSE Raised("RuntimeError", d, <<>>)

\* the auto branch of compress_file
compress_auto(t, d, archive_path, password) ==
  IF _find_7z_exe(t) # "" THEN compress_with_7z_cli(t, d, archive_path, password)
  ELSE IF t.py7zr THEN compress_with_py7zr(t, d, archive_path, password)
  ELSE IF password # "" THEN Raised("RuntimeError", d, <<>>)
  ELSE compress_with_xz(t, d, archive_path)

compress_file(t, d, archive_path, method, password) ==
  IF method \notin {"auto", "7z", "py7zr", "xz"} THEN Raised("ValueError", d, <<>>)
  ELSE IF method = "7z" THEN compress_with_7z_cli(t, d, archive_path, password)
  ELSE IF method = "py7zr" THEN compress_with_py7zr(t, d, archive_path, password)
  ELSE IF method = "xz"
  THEN IF password # "" THEN Raised("ValueError", d, <<>>)
       ELSE compress_with_xz(t, d, archive_path)
  ELSE compress_auto(t, d, archive_path, password)

\* the branch for a 7z archive: the system CLI if there is one, else py7zr
decompress_7z(t, d, archive_path, password) ==
  IF _find_7z_exe(t) # "" THEN decompress_with_7z_cli(t, d, archive_path, password)
  ELSE IF t.py7zr THEN decompress_with_py7zr(t, d, archive_path, password)
  ELSE Raised("RuntimeError", d, <<>>)

decompress_as_xz(t, d, archive_path, password) ==
  IF password # "" THEN Raised("ValueError", d, <<>>)
  ELSE decompress_xz(t, d, archive_path)

\* unknown extension: each backend in turn, an exception of one leading to
\* the next; r1 and r2 are the attempts already made
after_attempts(r1, r2, r3) ==
  IF r3.err = ""
  THEN Returned(r3.out, r3.disk, r1.tried \o r2.tried \o r3.tried)
  ELSE Raised("RuntimeError", r3.disk, r1.tried \o r2.tried \o r3.tried)

try_xz(t, archive_path, r1, r2) ==
  after_attempts(r1, r2, decompress_xz(t, r2.disk, archive_path))

try_py7zr(t, archive_path, password, r1) ==
  IF ~t.py7zr THEN try_xz(t, archive_path, r1, Raised("skipped", r1.disk, <<>>))
  ELSE LET tried2(r2) ==
             IF r2.err = "" THEN Returned(r2.out, r2.disk, r1.tried \o r2.tried)
             ELSE try_xz(t, archive_path, r1, r2)
       IN tried2(decompress_with_py7zr(t, r1.disk, archive_path, password))

decompress_any(t, d, archive_path, password) ==
  IF _find_7z_exe(t) = ""
  THEN try_py7zr(t, archive_path, password, Raised("skipped", d, <<>>))
  ELSE LET tried1(r1) ==
             IF r1.err = "" THEN r1
             ELSE try_py7zr(t, archive_path, password, r1)
       IN tried1(decompress_with_7z_cli(t, d, archive_path, password))

\* method None is inferred from the extension
inferred_method(method, ext) ==
  IF method # "" THEN method
  ELSE IF ext = ".7z" THEN "7z" ELSE IF ext = ".xz" THEN "xz" ELSE "auto"

decompress_by(t, d, archive_path, method, ext, password) ==
  IF method = "7z" \/ (method = "auto" /\ ext = ".7z")
  THEN decompress_7z(t, d, archive_path, password)
  ELSE IF method = "xz" \/ (method = "auto" /\ ext = ".xz")
  THEN decompress_as_xz(t, d, archive_path, password)
  ELSE IF ext = ".7z" THEN decompress_7z(t, d, archive_path, password)
  ELSE IF ext = ".xz" THEN decompress_as_xz(t, d, archive_path, password)
  ELSE decompress_any(t, d, archive_path, password)

decompress_file(t, d, archive_path, method, password) ==
  decompress_by(t, d, archive_path, inferred_method(method, suffix(archive_path)),
                suffix(archive_path), password)

ArchivePaths == {"updates.v3.7z", "updates.v3.xz", "a.bin"}
CompressMethods == {"auto", "7z", "py7zr", "xz", "zip"}
DecompressMethods == {"", "auto", "7z", "py7zr", "xz"}

\* a machine with or without each tool, the log to archive, and possibly
\* an archive a.bin made elsewhere
InitArchive ==
  /\ comp = FrameCompressorV3_init(AssetId)
  /\ calls = <<>>
  /\ file = <<>>
  /\ mode = "compact"
  /\ phase = "log"
  /\ container = "lines"
  /\ ndjson = TRUE
  /\ entries = <<>>
  /\ rpos = 0
  /\ st = _V3State_init
  /\ outputs = <<>>
  /\ written = <<>>
  /\ pc = "idle"
  /\ pending = <<>>
  /\ closed = FALSE
  /\ loop = run_forever_init
  /\ insts = <<>>
  /\ hist = <<>>
  /\ tools \in [cli : {"", "7z", "7zr"}, py7zr : BOOLEAN]
  /\ \E c \in {Plain, Archive("7z", ""), Archive("xz", "")} :
       disk = IF c = Plain THEN (InputPath :> Plain)
              ELSE (InputPath :> Plain) @@ ("a.bin" :> c)
  /\ last = <<>>
  /\ UnitIdle

\* the call recorded with the disk before it and what it gave back
called_file(op, path, method, password, r) ==
  /\ disk' = r.disk
  /\ last' = <<[op |-> op, path |-> path, method |-> method, password |-> password,
               before |-> disk, err |-> r.err, out |-> r.out, tried |-> r.tried]>>

CompressFile(archive_path, method, password) ==
  /\ called_file("compress", archive_path, method, password,
                 compress_file(tools, disk, archive_path, method, password))
  /\ UNCHANGED tools
  /\ UNCHANGED <<comp, calls, file, mode, phase, container, ndjson, entries, rpos,
                 st, outputs, written>>
  /\ UNCHANGED <<logger_vars, inst_vars, unit_vars>>

DecompressFile(archive_path, method, password) ==
  /\ called_file("decompress", archive_path, method, password,
                 decompress_file(tools, disk, archive_path, method, password))
  /\ UNCHANGED tools
  /\ UNCHANGED <<comp, calls, file, mode, phase, container, ndjson, entries, rpos,
                 st, outputs, written>>
  /\ UNCHANGED <<logger_vars, inst_vars, unit_vars>>

NextArchive ==
  \/ \E archive_path \in {"", "a.bin"}, method \in CompressMethods, password \in Passwords :
       CompressFile(archive_path, method, password)
  \/ \E archive_path \in ArchivePaths, method \in DecompressMethods, password \in Passwords :
       DecompressFile(archive_path, method, password)

SpecArchive == InitArchive /\ [][NextArchive]_vars

(***************************************************************************)
(* The varint helpers and the pool on their own: calls of _uvarint_encode  *)
(* and _uvarint_decode in any order on one bytearray ubuf, and calls of    *)
(* _StringPool.encode, .decode and .reset in any order on one pool upool   *)
(* and that bytearray.  uop holds the last call:                           *)
(* its name, its arguments, what it returned or raised, the bytes it       *)
(* appended and the pool before it.                                        *)
(***************************************************************************)

\* the calls stop growing the bytearray at this length
MaxOut == 2

\* the calls stop growing the pool at this next id
MaxPool == 3

\* longest run of continuation bytes in the buffers decoded
MaxRun == 12

\* last index at which a decode call starts
MaxStart == 2

\* the indices at which the decode calls start in buf
Starts(buf) == {i \in 0..(Len(buf) + 1) : i <= MaxStart}

\* the integers encoded: the ends of the 1- to 5-byte ranges and -1
VarintInputs ==
  {-1, 0, 1, 127, 128, 300, 16383, 16384, 2097151, 2097152, 268435455,
   268435456, 2147483647}

PoolStrings == {"", "A", "10"}

RECURSIVE Cont(_)
Cont(k) == IF k = 0 THEN <<>> ELSE <<128>> \o Cont(k - 1)

\* buffers for _uvarint_decode: runs of continuation bytes, ended or not
VarintBufs ==
  {Cont(k) \o t : k \in 0..MaxRun, t \in {<<>>, <<0>>, <<0, 128>>}}
    \cup {<<129, 1>>, <<255, 127>>, <<1, 128>>, <<128, 128, 1>>}

\* buffers for _StringPool.decode: references, literals, literals longer
\* than the buffer, a cut varint
PoolBufs ==
  {<<0>>, <<2>>, <<4>>, <<6>>, <<8>>, <<1>>, <<3, 65>>, <<5, 49, 48>>,
   <<5, 49>>, <<7, 65>>, <<3>>, <<128>>, <<3, 65, 2>>}

Call(name, n, s, buf, i, err, x, rs, ri, wrote, before) ==
  [name |-> name, n |-> n, s |-> s, buf |-> buf, i |-> i, err |-> err,
   x |-> x, rs |-> rs, ri |-> ri, wrote |-> wrote, before |-> before]

InitUnit ==
  /\ comp = FrameCompressorV3_init(AssetId)
  /\ calls = <<>>
  /\ file = <<>>
  /\ mode = "compact"
  /\ phase = "log"
  /\ container = "lines"
  /\ ndjson = TRUE
  /\ entries = <<>>
  /\ rpos = 0
  /\ st = _V3State_init
  /\ outputs = <<>>
  /\ written = <<>>
  /\ pc = "idle"
  /\ pending = <<>>
  /\ closed = FALSE
  /\ loop = run_forever_init
  /\ insts = <<>>
  /\ hist = <<>>
  /\ tools = [cli |-> "", py7zr |-> FALSE]
  /\ disk = <<>>
  /\ last = <<>>
  /\ UnitIdle

rest_unchanged ==
  /\ UNCHANGED <<comp, calls, file, mode, phase, container, ndjson, entries, rpos,
                 st, outputs, written>>
  /\ UNCHANGED <<logger_vars, inst_vars, archive_vars>>

\* out = bytearray()
NewOut ==
  /\ ubuf # <<>>
  /\ ubuf' = <<>>
  /\ uop' = <<Call("bytearray", 0, "", <<>>, 0, "", 0, "", 0, <<>>, upool)>>
  /\ UNCHANGED <<upool, udec>>
  /\ rest_unchanged

\* _uvarint_encode(n, out)
UvarintEncode(n) ==
  /\ Len(ubuf) < MaxOut
  /\ LET called(r) ==
           /\ ubuf' = ubuf \o r.out
           /\ uop' = <<Call("_uvarint_encode", n, "", ubuf, 0, r.err, 0, "", 0,
                            r.out, upool)>>
     IN called(_uvarint_encode(n))
  /\ UNCHANGED <<upool, udec>>
  /\ rest_unchanged

\* _uvarint_decode(buf, i)
UvarintDecode(buf, i) ==
  /\ LET called(r) ==
           uop' = <<Call("_uvarint_decode", 0, "", buf, i, r.err, r.x, "", r.i,
                         <<>>, upool)>>
     IN called(_uvarint_decode(buf, i))
  /\ UNCHANGED <<ubuf, upool, udec>>
  /\ rest_unchanged

\* pool.encode(s, out)
PoolEncode(s) ==
  /\ Len(ubuf) < MaxOut
  /\ upool.next < MaxPool
  /\ LET called(r) ==
           /\ ubuf' = ubuf \o r.out
           /\ upool' = r.pool
           /\ uop' = <<Call("encode", 0, s, ubuf, 0, "", 0, "", 0, r.out, upool)>>
     IN called(pool_encode(upool, s))
  /\ UNCHANGED udec
  /\ rest_unchanged

\* pool.decode(buf, i)
PoolDecode(buf, i) ==
  /\ upool.next < MaxPool
  /\ LET called(r) ==
           /\ upool' = r.pool
           /\ uop' = <<Call("decode", 0, "", buf, i, r.err, 0, r.s, r.i, <<>>, upool)>>
     IN called(pool_decode(upool, buf, i))
  /\ udec' = TRUE
  /\ UNCHANGED ubuf
  /\ rest_unchanged

\* pool.reset()
PoolReset ==
  /\ upool # _StringPool_init
  /\ upool' = _StringPool_init
  /\ uop' = <<Call("reset", 0, "", <<>>, 0, "", 0, "", 0, <<>>, upool)>>
  /\ udec' = FALSE
  /\ UNCHANGED ubuf
  /\ rest_unchanged

\* the varint helpers on a bytearray
NextVarint ==
  \/ NewOut
  \/ \E n \in VarintInputs : UvarintEncode(n)
  \/ \E buf \in VarintBufs \cup {ubuf} : \E i \in Starts(buf) :
       UvarintDecode(buf, i)

SpecVarint == InitUnit /\ [][NextVarint]_vars

\* the pool and a bytearray
NextPool ==
  \/ NewOut
  \/ \E s \in PoolStrings : PoolEncode(s)
  \/ \E buf \in PoolBufs \cup {ubuf} : \E i \in 0..Len(buf) : PoolDecode(buf, i)
  \/ PoolReset

SpecPool == InitUnit /\ [][NextPool]_vars

(***************************************************************************)
(* Properties.                                                             *)
(***************************************************************************)

KnownTypes == {"book", "price_change", "tick_size_change", "last_trade_price"}

IsEventFrame(frame) == frame.t = "json" /\ frame.v.t \in {"obj", "arr"}

EventsOf(frame) == IF frame.v.t = "obj" THEN <<frame.v>> ELSE frame.v.v

\* known event_type, numeric non-negative timestamp
ValidEvent(ev) ==
  /\ ev.t = "obj"
  /\ "event_type" \in DOMAIN ev.v /\ ev.v["event_type"] \in KnownTypes
  /\ "timestamp" \in DOMAIN ev.v
  /\ int_parse(ev.v["timestamp"]) # None
  /\ int_parse(ev.v["timestamp"])[1] >= 0

ValidFrame(frame) ==
  /\ IsEventFrame(frame)
  /\ \A k \in 1..Len(EventsOf(frame)) : ValidEvent(EventsOf(frame)[k])

UpperSides(chs) ==
  [k \in 1..Len(chs) |->
     [f \in DOMAIN chs[k] |-> IF f = "side" THEN upper(chs[k][f]) ELSE chs[k][f]]]

\* the normalisation of an event dict: market/hash removed, side uppercased,
\* buys/sells renamed to bids/asks, asset_id the session asset, timestamp a
\* decimal string
Normalise(d) ==
  LET keys == ((DOMAIN d) \ {"market", "hash", "buys", "sells"})
              \cup (IF "buys" \in DOMAIN d THEN {"bids"} ELSE {})
              \cup (IF "sells" \in DOMAIN d THEN {"asks"} ELSE {})
              \cup {"asset_id"}
  IN [k \in keys |->
        CASE k = "asset_id" -> AssetId
          [] k = "timestamp" -> str_int(int_parse(d["timestamp"])[1])
          [] k = "side" -> upper(d["side"])
          [] k = "bids" -> IF "bids" \in DOMAIN d THEN d["bids"] ELSE d["buys"]
          [] k = "asks" -> IF "asks" \in DOMAIN d THEN d["asks"] ELSE d["sells"]
          [] k = "changes" -> UpperSides(d["changes"])
          [] OTHER -> d[k]]

\* the output expected for a frame of valid events
Expected(frame) ==
  JsonText(Arr([k \in 1..Len(EventsOf(frame)) |->
                  Obj(Normalise(EventsOf(frame)[k].v))]))

\* the bare lines returned by compress are what the decoder reads
BareLines == mode = "compact" /\ container = "lines"

AllReturned(n) == \A k \in 1..n : calls[k].err = ""

\* C1: for every sequence of frames of valid events, compressing them in
\* order and decoding every returned line in order with one fresh decoder
\* yields one output per frame, in order, equal to the frame's events after
\* normalisation; no call raises and no line fails to decode.
C1_RoundTrip ==
  (BareLines /\ \A k \in 1..Len(calls) : ValidFrame(calls[k].frame))
  => /\ AllReturned(Len(calls))
     /\ phase # "crashed"
     /\ phase \in {"reinflate", "done"} =>
          /\ Len(outputs) <= Len(calls)
          /\ \A k \in 1..Len(outputs) : outputs[k] = Expected(calls[k].frame)
     /\ phase = "done" => Len(outputs) = Len(calls)

C1_Witness ==
  /\ BareLines /\ phase = "done"
  /\ Len(calls) >= 3
  /\ \A k \in 1..Len(calls) : ValidFrame(calls[k].frame)
  /\ calls[1].frame = JsonText(Arr(<<EvBook100>>))
  /\ calls[3].frame = JsonText(Arr(<<EvLtp90Fee>>))
  /\ Len(outputs) = Len(calls)
  /\ outputs[3] = Expected(calls[3].frame)

\* C2: timestamp delta law: when the decoder has read the lines of the
\* first n calls (none of which raised), its prev_ts equals the
\* compressor's prev_ts after call n, also for events whose timestamp is
\* missing or non-numeric.
C2_DeltaLaw ==
  \A n \in 1..Len(calls) :
    (BareLines /\ phase \in {"reinflate", "done"} /\ AllReturned(n)
       /\ rpos = calls[n].nlines)
    => st.prev_ts = calls[n].self.prev_ts

\* the lines returned by the calls so far, in order
RECURSIVE ReturnedLines(_)
ReturnedLines(n) ==
  IF n = 0 THEN <<>> ELSE ReturnedLines(n - 1) \o calls[n].ret

IsKind(line, kind) == line.t = "b64" /\ line.v # <<>> /\ line.v[1] = kind

\* C3: in the concatenation of all lines returned by the compress calls of
\* one compressor (calls may raise), the first line is the header, so every
\* frame or raw record is preceded by it.
C3_HeaderFirst ==
  LET lines == ReturnedLines(Len(calls))
  IN lines # <<>> => IsKind(lines[1], _REC_HEADER)

\* C4: wrote_header never goes from true to false; at most one compress
\* call returns a [header_line, frame_line] pair, and every call that
\* returns after it returns a single line that is not a header.
C4_HeaderIdempotence ==
  /\ [][comp.wrote_header => comp'.wrote_header]_vars
  /\ [](\A j \in 1..Len(calls) :
          /\ Len(calls[j].ret) <= 2
          /\ Len(calls[j].ret) = 2 =>
               /\ IsKind(calls[j].ret[1], _REC_HEADER)
               /\ ~IsKind(calls[j].ret[2], _REC_HEADER)
               /\ calls[j].self.wrote_header
               /\ \A k \in (j + 1)..Len(calls) :
                    /\ calls[k].self.wrote_header
                    /\ calls[k].err = "" =>
                         /\ Len(calls[k].ret) = 1
                         /\ ~IsKind(calls[k].ret[1], _REC_HEADER))

C4_Witness ==
  /\ Len(calls) >= 3
  /\ Len(calls[1].ret) = 2
  /\ calls[2].err # ""
  /\ Len(calls[3].ret) = 1
  /\ comp.wrote_header

\* the decoder reads exactly the lines the compress calls returned
DecoderFed == mode = "compact" \/ (mode = "jsonl" /\ container = "array")

\* C5: pool lockstep: when all of the first n compress calls returned and
\* the decoder has processed the lines they returned, its id-to-string
\* table and next_id equal the compressor's after call n.
C5_PoolLockstep ==
  \A n \in 1..Len(calls) :
    (DecoderFed /\ phase \in {"reinflate", "done"} /\ AllReturned(n)
       /\ rpos = calls[n].nlines)
    => /\ st.pool.i2s = calls[n].self.pool.i2s
       /\ st.pool.next = calls[n].self.pool.next

C5_Witness ==
  /\ DecoderFed /\ phase = "reinflate"
  /\ Len(calls) >= 2 /\ AllReturned(2) /\ rpos = calls[2].nlines
  /\ st.pool.next >= 4
  /\ st.pool.i2s = calls[2].self.pool.i2s

\* C6: producer fallback as a safety net: when compress raises on some
\* frames and the logger stores them under an m wrapper, reinflating the log
\* still reaches its end and every frame that was compressed decodes to its
\* own normalisation, one output per frame.
C6_FallbackSafetyNet ==
  (BareLines /\ \A k \in 1..Len(calls) :
                  calls[k].err = "" => ValidFrame(calls[k].frame))
  => /\ phase # "crashed"
     /\ phase = "done" =>
          /\ Len(outputs) = Len(calls)
          /\ \A k \in 1..Len(calls) :
               calls[k].err = "" => outputs[k] = Expected(calls[k].frame)

IsWrapper(o) ==
  /\ o.t = "json" /\ o.v.t = "obj"
  /\ ("c" \in DOMAIN o.v.v \/ "m" \in DOMAIN o.v.v)

\* C7: in a newline-delimited log a line that is a JSON object with key c
\* is emitted as the decoded V3 record it wraps and a line with key m as its
\* m value, so no output of the reinflater is a c or m wrapper itself.
C7_WrappedLines ==
  (container = "lines" /\ phase \in {"reinflate", "done"})
  => \A k \in 1..Len(outputs) : ~IsWrapper(outputs[k])

\* C8: a V3 record that is fatal mid-record is skipped: reinflate_file
\* never stops before the end of its input, it goes on to the later entries.
C8_FatalRecordSkipped == phase # "crashed"

V3Entry(e) == e.t = "b64" \/ (e.t = "obj" /\ "c" \in DOMAIN e.v)

\* C9: every event of every frame output the decoder emits has asset_id
\* equal to the first asset id of the most recently parsed header.
C9_AssetIdFromHeader ==
  [][(phase = "reinflate" /\ rpos' = rpos + 1 /\ V3Entry(entries[rpos + 1]))
     => \A k \in (Len(outputs) + 1)..Len(outputs') :
          outputs'[k].v.t = "arr" =>
            \A j \in 1..Len(outputs'[k].v.v) :
              /\ st'.have_header
              /\ st'.asset_ids # <<>>
              /\ outputs'[k].v.v[j].v["asset_id"] = st'.asset_ids[1]]_vars

\* the pool elements of the records returned so far, in order
RECURSIVE StreamToks(_)
StreamToks(n) ==
  IF n = 0 THEN <<>> ELSE StreamToks(n - 1) \o calls[n].toks

FirstAt(S, p) == \A q \in 1..(p - 1) : S[q].s # S[p].s

\* the ordinal of the string of S[p] among the literals of S
Ordinal(S, p) ==
  LET q0 == CHOOSE q \in 1..p : S[q].s = S[p].s /\ FirstAt(S, q)
  IN Cardinality({r \in 1..q0 : S[r].lit})

\* C10: string pool monotonicity over the emitted stream: in the records
\* returned after the header, the first occurrence of each pooled string is
\* a literal and every later occurrence is a reference whose id is the
\* ordinal (from 1) of that string among the literals emitted so far.
C10_PoolMonotone ==
  LET S == StreamToks(Len(calls))
  IN \A p \in 1..Len(S) :
       IF FirstAt(S, p) THEN S[p].lit
       ELSE ~S[p].lit /\ S[p].id = Ordinal(S, p)

\* an event dict with a numeric timestamp that a varint can carry
NumericTs(ev) ==
  ev.t = "obj" /\ _get_ts(ev.v) # None /\ _get_ts(ev.v)[1] >= 0

\* call k returned an F record for a frame whose first event has a numeric
\* timestamp
StampedCall(k) ==
  /\ calls[k].err = "" /\ Len(calls[k].ret) >= 1
  /\ IsEventFrame(calls[k].frame)
  /\ EventsOf(calls[k].frame) # <<>>
  /\ NumericTs(EventsOf(calls[k].frame)[1])

\* the bytes of the F record call k returned
FrameBytes(k) == calls[k].ret[Len(calls[k].ret)].v

\* prev_ts when the first event of call k was encoded: base_ts of the header
\* the call returned, or prev_ts as the call before left it
PrevBefore(k) ==
  IF Len(calls[k].ret) = 2 THEN Some(_uvarint_decode(calls[k].ret[1].v, 3).x)
  ELSE IF k > 1 THEN calls[k - 1].self.prev_ts ELSE None

\* the rule on the first event of the F record of call k, read from the
\* record's bytes: type byte at offset 2, value at offset 3
EncodedByRule(k) ==
  LET ts == _get_ts(EventsOf(calls[k].frame)[1].v)[1]
      prev == PrevBefore(k)
      tb == FrameBytes(k)[3]
      val == _uvarint_decode(FrameBytes(k), 3).x
  IN /\ prev # None
     /\ IF ts >= prev[1]
        THEN ~bit_set(tb, _TB_TS_ABS) /\ val = ts - prev[1]
        ELSE bit_set(tb, _TB_TS_ABS) /\ val = ts

\* prev_ts after call k is the timestamp of its last event
PrevBecomesTs(k) ==
  LET evs == EventsOf(calls[k].frame)
  IN NumericTs(evs[Len(evs)]) =>
       calls[k].self.prev_ts = _get_ts(evs[Len(evs)].v)

\* the decoder's output k gives every numeric timestamp of frame k back as
\* its decimal string
RecoveredTs(k) ==
  LET evs == EventsOf(calls[k].frame)
  IN /\ outputs[k].t = "json" /\ outputs[k].v.t = "arr"
     /\ Len(outputs[k].v.v) = Len(evs)
     /\ \A j \in 1..Len(evs) :
          NumericTs(evs[j]) =>
            outputs[k].v.v[j].v["timestamp"] = str_int(_get_ts(evs[j].v)[1])

\* C11: timestamp encoding rule: an event with numeric timestamp ts encoded
\* when prev_ts is set carries TS_ABS=0 and ts - prev_ts if ts >= prev_ts,
\* TS_ABS=1 and ts otherwise; prev_ts becomes ts; and the decoder, reading
\* the returned lines, gives ts back as the decimal string.
C11_TimestampRule ==
  \A k \in 1..Len(calls) :
    StampedCall(k) =>
      /\ EncodedByRule(k)
      /\ PrevBecomesTs(k)
      /\ (BareLines /\ phase \in {"reinflate", "done"} /\ Len(outputs) >= k)
           => RecoveredTs(k)

\* the encoder's half of C11 alone
C11_EncoderRule ==
  \A k \in 1..Len(calls) :
    StampedCall(k) => EncodedByRule(k) /\ PrevBecomesTs(k)

(***************************************************************************)
(* Properties of reinflate_file on mixed logs (SpecTolerant).              *)
(***************************************************************************)

\* the entry reinflate_file reads next
AtEntry == phase = "reinflate" /\ rpos < Len(entries)

\* the strings of entry e that yield_json_values hands to
\* _try_decode_v3_line
TokensOf(e) ==
  IF IsStr(e) THEN {e}
  ELSE IF e.t = "obj"
  THEN {e.v[k] : k \in {"c", "compressed"} \cap DOMAIN e.v}
  ELSE {}

RecordKinds == {_REC_HEADER, _REC_FRAME, _REC_RAW}

\* the token does not inflate, inflates to nothing or to an unknown kind
NotV3Token(tok) ==
  tok.t # "b64" \/ tok.v = <<>> \/ tok.v[1] \notin RecordKinds

\* the dispatch of C12 for the result r of _try_decode_v3_line(tok, s0)
Dispatched(tok, s0, r) ==
  /\ NotV3Token(tok) => r.notv3 /\ r.err = "" /\ r.outs = <<>> /\ r.st = s0
  /\ (~NotV3Token(tok) /\ r.err = "") =>
       /\ ~r.notv3
       /\ IsKind(tok, _REC_HEADER) => r.outs = <<>>
       /\ IsKind(tok, _REC_FRAME) =>
            Len(r.outs) = 1 /\ r.outs[1].t = "json" /\ r.outs[1].v.t = "arr"
       /\ IsKind(tok, _REC_RAW) =>
            Len(r.outs) = 1 /\ r.outs[1].t = "json" /\ r.outs[1].v.t = "str"

\* C12: decoder dispatch: a token that fails base64/DEFLATE decoding,
\* inflates to empty or starts with a byte other than H, F, X is "not V3"
\* and leaves the decoder state unchanged; a record that decodes yields no
\* output for H, exactly one JSON array for F (also for event count 0) and
\* exactly one JSON string for X.
C12_Dispatch ==
  AtEntry =>
    \A tok \in TokensOf(entries[rpos + 1]) :
      Dispatched(tok, st, _try_decode_v3_line(tok, st))

C12_Witness ==
  /\ AtEntry
  /\ entries[rpos + 1] = UnknownKind
  /\ st.have_header /\ st.pool.next > 1
  /\ \E k \in 1..Len(outputs) : outputs[k].v.t = "arr"

\* the V3 record entry e holds, if any
V3Token(e) ==
  IF e.t = "b64" THEN <<e>>
  ELSE IF e.t = "obj" /\ "c" \in DOMAIN e.v /\ e.v["c"].t = "b64" THEN <<e.v["c"]>>
  ELSE IF e.t = "obj" /\ "compressed" \in DOMAIN e.v /\ e.v["compressed"].t = "b64"
  THEN <<e.v["compressed"]>>
  ELSE <<>>

HeaderEntry(e) == V3Token(e) # <<>> /\ IsKind(V3Token(e)[1], _REC_HEADER)

\* the outputs of the entries es read in order from decoder state s0, up to
\* the first entry that raises
RECURSIVE RunEntries(_, _)
RunEntries(es, s0) ==
  IF es = <<>> THEN [err |-> "", outs |-> <<>>, st |-> s0]
  ELSE LET r == yield_json_values(Head(es), s0)
       IN IF r.err # "" THEN [err |-> r.err, outs |-> <<>>, st |-> r.st]
          ELSE LET q == RunEntries(Tail(es), r.st)
               IN [err |-> q.err, outs |-> r.outs \o q.outs, st |-> q.st]

\* the decoder state right after the header record of entry e
FreshSession(e) ==
  /\ st.pool = _StringPool_init
  /\ st.base_ts = _uvarint_decode(V3Token(e)[1].v, 3).x
  /\ st.prev_ts = Some(st.base_ts)
  /\ st.asset_ids = <<AssetId>>

\* reading es from the start gives the outputs of the part before entry p
\* followed by those of the part from entry p, each read from a fresh state
SplitsAt(es, p) ==
  LET a == RunEntries(SubSeq(es, 1, p - 1), _V3State_init)
      b == RunEntries(SubSeq(es, p, Len(es)), _V3State_init)
      w == RunEntries(es, _V3State_init)
  IN IF a.err = "" THEN w.outs = a.outs \o b.outs /\ w.err = b.err
     ELSE w.outs = a.outs /\ w.err = a.err

\* C13: a header parsed mid-stream starts a fresh session: right after any
\* H record the pool is empty, prev_ts = base_ts of that header and the
\* asset ids are the header's; so the outputs of an input that holds a
\* header at entry p are the outputs of the entries before p followed by
\* the outputs of the entries from p on, each part decoded from a fresh
\* state (a part that raises ends the run with its outputs so far).
C13_HeaderStartsSession ==
  /\ (phase = "reinflate" /\ rpos >= 1 /\ HeaderEntry(entries[rpos]))
       => FreshSession(entries[rpos])
  /\ phase \in {"done", "crashed"} =>
       /\ outputs = RunEntries(entries, _V3State_init).outs
       /\ \A p \in 2..Len(entries) :
            HeaderEntry(entries[p]) => SplitsAt(entries, p)

C13_Witness ==
  /\ phase = "done"
  /\ entries = StreamB \o StreamA
  /\ Len(outputs) = 4
  /\ outputs[3] = Expected(JsonText(Arr(<<EvBook100>>)))

\* a dict entry with key compressed whose value is a legacy line
CompressedLegacy(e) ==
  /\ e.t = "obj" /\ "c" \notin DOMAIN e.v /\ "compressed" \in DOMAIN e.v
  /\ legacy_decode(e.v["compressed"]).ok

\* C14: for an object wrapper with key compressed the reinflater tries V3
\* on the value and, when that is not V3, decodes the value as legacy
\* base64+zlib JSON and emits the stripped decoded JSON, not the wrapper.
C14_CompressedLegacy ==
  [][(AtEntry /\ CompressedLegacy(entries[rpos + 1]))
     => /\ rpos' = rpos + 1
        /\ outputs' = Append(outputs,
             json_dumps(_strip_keys(legacy_decode(
                          entries[rpos + 1].v["compressed"]).value)))]_vars

\* the output the strategy order of C15 gives for the str entry e
ByStrategyOrder(e, s0) ==
  LET m == _try_decode_v3_line(e, s0)
  IN IF ~NotV3Token(e) THEN m.outs
     ELSE IF legacy_decode(e).ok
     THEN <<json_dumps(_strip_keys(legacy_decode(e).value))>>
     ELSE IF _maybe_json_value(e) # None THEN _maybe_json_value(e)
     ELSE <<json_dumps_str(e)>>

\* C15: for a bare string entry the strategies are tried in the order V3,
\* legacy base64+zlib JSON, direct JSON (also a JSON string that holds
\* JSON), raw string; the first that succeeds gives the output, and every
\* bare string entry that is not a V3 header produces exactly one output.
C15_StringStrategies ==
  [][(AtEntry /\ IsStr(entries[rpos + 1]))
     => /\ rpos' = rpos + 1
        /\ outputs' = outputs \o ByStrategyOrder(entries[rpos + 1], st)
        /\ ~IsKind(entries[rpos + 1], _REC_HEADER)
             => Len(outputs') = Len(outputs) + 1]_vars

\* C15 for the entries whose V3 decoding does not raise
C15_WhenDecodable ==
  [][(AtEntry /\ IsStr(entries[rpos + 1])
        /\ _try_decode_v3_line(entries[rpos + 1], st).err = "")
     => /\ rpos' = rpos + 1
        /\ outputs' = outputs \o ByStrategyOrder(entries[rpos + 1], st)
        /\ ~IsKind(entries[rpos + 1], _REC_HEADER)
             => Len(outputs') = Len(outputs) + 1]_vars

\* the JSON value holds an object with key market or hash at some depth
RECURSIVE HasStrippedKey(_)
HasStrippedKey(value) ==
  CASE value.t = "obj" ->
         \/ {"market", "hash"} \cap DOMAIN value.v # {}
         \/ \E k \in ContainerKeys \cap DOMAIN value.v : HasStrippedKey(value.v[k])
    [] value.t = "arr" ->
         \E k \in 1..Len(value.v) : HasStrippedKey(value.v[k])
    [] OTHER -> FALSE

\* C16: no JSON value emitted by the reinflater, on any path, holds an
\* object with key market or hash at any nesting depth.
C16_NoMarketNoHash ==
  /\ \A k \in 1..Len(outputs) : ~HasStrippedKey(outputs[k].v)
  /\ \A k \in 1..Len(written) : ~HasStrippedKey(written[k].v)

C16_Witness ==
  /\ phase = "done" /\ container = "array" /\ ~ndjson
  /\ file = <<JsonText(NestedObject), LegacyLine>>
  /\ Len(outputs) = 2
  /\ HasStrippedKey(NestedObject) /\ HasStrippedKey(LegacyLine.v)
  /\ Len(written) = 1 /\ Len(written[1].v.v) = 2

(***************************************************************************)
(* Further properties of the logger and its log (Spec).                    *)
(***************************************************************************)

\* call k compressed a text that is not JSON
HeartbeatCall(k) == mode # "raw" /\ calls[k].frame.t = "raw"

\* the positions in the file of the lines call k wrote
LinesOfCall(k) == (calls[k].nlines - Len(calls[k].ret) + 1)..calls[k].nlines

\* call k returned a RAW record, after a header of base_ts 0 when it is the
\* first call
EncodedAsRaw(k) ==
  /\ calls[k].err = ""
  /\ Len(calls[k].ret) >= 1
  /\ IsKind(calls[k].ret[Len(calls[k].ret)], _REC_RAW)
  /\ k = 1 => /\ Len(calls[k].ret) = 2
              /\ IsKind(calls[k].ret[1], _REC_HEADER)
              /\ _uvarint_decode(calls[k].ret[1].v, 3).x = 0

\* the reinflater gives the text of call k back as a JSON string
DecodedAsString(k) ==
  /\ Len(outputs) >= k =>
       outputs[k] = JsonText([t |-> "str", v |-> calls[k].frame.v])
  /\ phase = "crashed" => rpos + 1 \notin LinesOfCall(k)
  /\ phase = "done" => Len(outputs) >= k

\* C17: a non-JSON frame text (heartbeat PONG) is encoded as a RAW record,
\* preceded by a header with base_ts 0 if it is the first frame, and
\* decodes to the JSON string of the same text, at every occurrence, also
\* when the payload of a repeated heartbeat is a pool reference.
C17_Heartbeat ==
  \A k \in 1..Len(calls) :
    HeartbeatCall(k) =>
      /\ EncodedAsRaw(k)
      /\ (BareLines /\ phase \in {"reinflate", "done", "crashed"})
           => DecodedAsString(k)

\* C17 in the runs where no compress call raised
C17_WhenAllReturned ==
  AllReturned(Len(calls)) => C17_Heartbeat

(***************************************************************************)
(* C18: determinism and independence of compressor instances.              *)
(***************************************************************************)

\* the frames given to a compressor so far, and what each call gave back
GivenTo(i) == [k \in 1..Len(hist[i]) |-> hist[i][k].frame]
GotFrom(i) == [k \in 1..Len(hist[i]) |-> [err |-> hist[i][k].err, ret |-> hist[i][k].ret]]

\* what a compressor in state self gives back for the frames fs, called on
\* them in order with no other compressor in the process
RECURSIVE Alone(_, _)
Alone(self, fs) ==
  IF fs = <<>> THEN <<>>
  ELSE LET r == compress(self, Head(fs))
       IN <<[err |-> r.err, ret |-> r.ret]>> \o Alone(r.self, Tail(fs))

\* the state of a compressor after the frames fs
RECURSIVE StateAfter(_, _)
StateAfter(self, fs) ==
  IF fs = <<>> THEN self
  ELSE StateAfter(compress(self, Head(fs)).self, Tail(fs))

SamePrefix(i, j, n) ==
  /\ n <= Len(hist[i])
  /\ n <= Len(hist[j])
  /\ SubSeq(GivenTo(i), 1, n) = SubSeq(GivenTo(j), 1, n)

HeaderWrittenFrameNot ==
  /\ Len(calls) > 0
  /\ calls[Len(calls)].err = ""
  /\ Len(calls[Len(calls)].ret) = 2
  /\ Len(pending) = 1
  /\ file # <<>>
  /\ file[Len(file)] = calls[Len(calls)].lines[1]

\* C19: the header line and the frame line of one compress call are
\* persisted together: the process is never stopped, by the signal
\* handler's stop() or by the close of the writer, with the header line in
\* the file and the frame line unwritten.
C19_HeaderFrameAtomic ==
  ~(pc = "stopped" /\ closed /\ HeaderWrittenFrameNot)

\* the lines of the calls so far, in the order of the calls
RECURSIVE LinesInCallOrder(_)
LinesInCallOrder(n) ==
  IF n = 0 THEN <<>> ELSE LinesInCallOrder(n - 1) \o calls[n].lines

LastCall(op, method) ==
  /\ last # <<>>
  /\ last[1].op = op
  /\ last[1].method = method

OnlyBackend(tried, b) == \A k \in 1..Len(tried) : tried[k] = b

\* C21: decompress_file honours the method it is given: with method py7zr
\* no backend other than py7zr is run, and the call raises when py7zr is
\* not installed; with method xz and a password the call raises, runs no
\* backend and leaves the disk as it was.
C21_MethodHonoured ==
  /\ LastCall("decompress", "py7zr") =>
       /\ OnlyBackend(last[1].tried, "py7zr")
       /\ ~tools.py7zr => last[1].err # ""
  /\ LastCall("decompress", "xz") /\ last[1].password # "" =>
       /\ last[1].err # ""
       /\ last[1].tried = <<>>
       /\ disk = last[1].before

\* C22: compress_file with method auto runs the system 7z CLI when one is
\* on PATH, else py7zr when it is installed, else xz, and no other backend;
\* with a password and neither 7z backend it raises, runs no backend and
\* leaves the disk as it was.
C22_AutoPriority ==
  LastCall("compress", "auto") =>
    IF tools.cli # "" THEN last[1].tried = <<"7z-cli">>
    ELSE IF tools.py7zr THEN last[1].tried = <<"py7zr">>
    ELSE IF last[1].password = "" THEN last[1].tried = <<"xz">> /\ last[1].err = ""
    ELSE /\ last[1].err = "RuntimeError"
         /\ last[1].tried = <<>>
         /\ disk = last[1].before

\* no CLI on PATH, py7zr installed: auto with a password made the
\* encrypted archive updates.v3.7z through py7zr
C22_Witness ==
  /\ LastCall("compress", "auto")
  /\ tools.cli = ""
  /\ tools.py7zr
  /\ last[1].password = "s"
  /\ last[1].tried = <<"py7zr">>
  /\ last[1].out = "updates.v3.7z"
  /\ "updates.v3.7z" \notin DOMAIN last[1].before
  /\ disk["updates.v3.7z"] = Archive("7z", "s")

(***************************************************************************)
(* C23: a call of compress that raises.                                    *)
(***************************************************************************)

\* the compressor before call k
SelfBefore(k) == IF k = 1 THEN FrameCompressorV3_init(AssetId) ELSE calls[k - 1].self

\* C23: compress aborts a frame as a whole: a call that raises returns no
\* line and leaves wrote_header, base_ts, prev_ts and the string pool of
\* the compressor as they were before the call.
C23_EncoderAbortsWhole ==
  \A k \in 1..Len(calls) :
    calls[k].err # "" =>
      /\ calls[k].ret = <<>>
      /\ calls[k].self = SelfBefore(k)

(***************************************************************************)
(* C24, C25: the decoder on a line that raises and on records without a    *)
(* header.                                                                 *)
(***************************************************************************)

\* C24: a V3 line whose decoding raises leaves the decoder state (pool,
\* prev_ts, base_ts, asset ids, flags, have_header) as it was before the
\* line.
C24_BadLineLeavesState ==
  AtEntry =>
    \A tok \in TokensOf(entries[rpos + 1]) :
      _try_decode_v3_line(tok, st).err # "" => _try_decode_v3_line(tok, st).st = st

\* C25: while the decoder has parsed no header, a frame or raw record
\* yields no JSON output.
C25_HeaderRequired ==
  (AtEntry /\ ~st.have_header) =>
    \A tok \in TokensOf(entries[rpos + 1]) :
      (~NotV3Token(tok) /\ ~IsKind(tok, _REC_HEADER)) =>
        \/ _try_decode_v3_line(tok, st).err # ""
        \/ _try_decode_v3_line(tok, st).outs = <<>>

(***************************************************************************)
(* C26: frames of no events.                                               *)
(***************************************************************************)

\* C26: no line returned by compress is a frame record with event count 0.
C26_NoEmptyFrame ==
  \A k \in 1..Len(calls) : \A j \in 1..Len(calls[k].ret) :
    IsKind(calls[k].ret[j], _REC_FRAME) =>
      _uvarint_decode(calls[k].ret[j].v, 1).x # 0

(***************************************************************************)
(* C27: the header and the base of the deltas.                             *)
(***************************************************************************)

\* call k returned a header and a record
HeaderCall(k) == calls[k].err = "" /\ Len(calls[k].ret) = 2

\* the position of the first event of evs with a numeric timestamp, 0 if
\* there is none
RECURSIVE FirstStamped(_, _)
FirstStamped(evs, p) ==
  IF p > Len(evs) THEN 0
  ELSE IF NumericTs(evs[p]) THEN p
  ELSE FirstStamped(evs, p + 1)

\* the base timestamp the claim gives the header of a frame
BaseOf(frame) ==
  IF ~IsEventFrame(frame) \/ FirstStamped(EventsOf(frame), 1) = 0 THEN 0
  ELSE _get_ts(EventsOf(frame)[FirstStamped(EventsOf(frame), 1)].v)[1]

\* the decoder after the header of call k, read from a new state, and its
\* result on the record that follows
AfterHeader(k) == _try_decode_v3_line(calls[k].ret[1], _V3State_init)
AfterRecord(k) == _try_decode_v3_line(calls[k].ret[2], AfterHeader(k).st)

\* the first timestamped event of the frame of call k comes back with its
\* timestamp, base_ts plus the delta written
FirstStampedRecovered(k) ==
  LET evs == EventsOf(calls[k].frame)
      p == FirstStamped(evs, 1)
  IN p # 0 =>
       /\ AfterRecord(k).err = ""
       /\ AfterRecord(k).outs[1].v.v[p].v["timestamp"] = str_int(BaseOf(calls[k].frame))

\* C27: the header a call returns carries version 3, the single-asset
\* flag, base_ts = the first numeric timestamp of the frame of that call
\* (0 if it has none or is not an event frame), asset count 1 and the
\* constructor's asset id; the compressor keeps that base_ts; the decoder
\* after the header has base_ts and prev_ts equal to it and the asset id;
\* and the first timestamped event of the frame is written as a delta to
\* base_ts and decoded to its timestamp.
C27_HeaderBase ==
  \A k \in 1..Len(calls) :
    HeaderCall(k) =>
      /\ calls[k].ret[1].v =
           <<_REC_HEADER, 3, _H_SINGLE_ASSET>> \o uvarint_bytes(BaseOf(calls[k].frame))
             \o <<1, Len(utf8_encode(AssetId))>> \o utf8_encode(AssetId)
      /\ calls[k].self.base_ts = Some(BaseOf(calls[k].frame))
      /\ AfterHeader(k).err = ""
      /\ AfterHeader(k).st.base_ts = BaseOf(calls[k].frame)
      /\ AfterHeader(k).st.prev_ts = Some(BaseOf(calls[k].frame))
      /\ AfterHeader(k).st.asset_ids = <<AssetId>>
      /\ AfterHeader(k).st.have_header
      /\ IsEventFrame(calls[k].frame) => FirstStampedRecovered(k)

\* C27 without its last part, the decoding of the first timestamped event
C27_HeaderContent ==
  \A k \in 1..Len(calls) :
    HeaderCall(k) =>
      /\ calls[k].ret[1].v =
           <<_REC_HEADER, 3, _H_SINGLE_ASSET>> \o uvarint_bytes(BaseOf(calls[k].frame))
             \o <<1, Len(utf8_encode(AssetId))>> \o utf8_encode(AssetId)
      /\ calls[k].self.base_ts = Some(BaseOf(calls[k].frame))
      /\ AfterHeader(k).st.base_ts = BaseOf(calls[k].frame)
      /\ AfterHeader(k).st.prev_ts = Some(BaseOf(calls[k].frame))
      /\ AfterHeader(k).st.asset_ids = <<AssetId>>

(***************************************************************************)
(* C28, C29, C30: the type byte and the side byte.  The places of the      *)
(* type bytes and side bytes of an F record are found by walking the       *)
(* record's layout, which needs no pool: a string is a varint v followed   *)
(* by v >> 1 bytes when v is odd.  Offsets count from 0 as in the source;  *)
(* -1 stands for a record that ends early.                                 *)
(***************************************************************************)

\* the offset after the string whose varint v was read
AfterStr(v) ==
  IF v.err # "" THEN -1
  ELSE IF v.x % 2 = 1 THEN v.i + (v.x \div 2)
  ELSE v.i

SkipStr(buf, i) == IF i < 0 THEN -1 ELSE AfterStr(_uvarint_decode(buf, i))

RECURSIVE SkipStrs(_, _, _)
SkipStrs(buf, i, n) ==
  IF n = 0 \/ i < 0 THEN i ELSE SkipStrs(buf, SkipStr(buf, i), n - 1)

SkipLevels(buf, i) ==
  LET levels(n) == IF n.err # "" THEN -1 ELSE SkipStrs(buf, n.i, 2 * n.x)
  IN IF i < 0 THEN -1 ELSE levels(_uvarint_decode(buf, i))

\* n changes from offset i: the offsets of their side bytes and the end
RECURSIVE WalkChanges(_, _, _)
WalkChanges(buf, i, n) ==
  IF n = 0 THEN [i |-> i, sides |-> <<>>]
  ELSE IF i < 0 \/ i >= Len(buf) THEN [i |-> -1, sides |-> <<>>]
  ELSE LET rest(r) == [i |-> r.i, sides |-> <<i>> \o r.sides]
       IN rest(WalkChanges(buf, SkipStrs(buf, i + 1, 2), n - 1))

\* the payload of an event of type byte tb from offset j
WalkPayload(buf, tb, j) ==
  LET changes(n) ==
        IF n.err # "" THEN [i |-> -1, sides |-> <<>>]
        ELSE WalkChanges(buf, n.i, n.x)
      trade(s) ==
        IF s < 0 \/ s >= Len(buf) THEN [i |-> -1, sides |-> <<>>]
        ELSE [i |-> IF (tb \div 8) % 2 = 1 THEN SkipStr(buf, s + 1) ELSE s + 1,
              sides |-> <<s>>]
  IN CASE tb % 8 = 0 -> [i |-> SkipLevels(buf, SkipLevels(buf, j)), sides |-> <<>>]
       [] tb % 8 = 1 -> changes(_uvarint_decode(buf, j))
       [] tb % 8 = 2 -> [i |-> SkipStrs(buf, j, 2), sides |-> <<>>]
       [] tb % 8 = 3 -> trade(SkipStrs(buf, j, 2))
       [] OTHER -> [i |-> -1, sides |-> <<>>]

\* the event at offset i: the offsets of its side bytes and its end
WalkEvent(buf, i) ==
  LET stamped(v) ==
        IF v.err # "" THEN [i |-> -1, sides |-> <<>>]
        ELSE WalkPayload(buf, buf[i + 1], v.i)
  IN IF i < 0 \/ i >= Len(buf) THEN [i |-> -1, sides |-> <<>>]
     ELSE stamped(_uvarint_decode(buf, i + 1))

\* n events from offset i: the offsets of the type bytes, and per event the
\* offsets of its side bytes
RECURSIVE WalkEvents(_, _, _)
WalkEvents(buf, i, n) ==
  IF n = 0 THEN [ok |-> TRUE, tbs |-> <<>>, sides |-> <<>>]
  ELSE LET rest(e, r) ==
             [ok |-> r.ok, tbs |-> <<i>> \o r.tbs, sides |-> <<e.sides>> \o r.sides]
           first(e) ==
             IF e.i < 0 THEN [ok |-> FALSE, tbs |-> <<>>, sides |-> <<>>]
             ELSE rest(e, WalkEvents(buf, e.i, n - 1))
       IN first(WalkEvent(buf, i))

\* the walk of an F record
WalkFrame(buf) ==
  LET events(cnt) ==
        IF cnt.err # "" THEN [ok |-> FALSE, tbs |-> <<>>, sides |-> <<>>]
        ELSE WalkEvents(buf, cnt.i, cnt.x)
  IN events(_uvarint_decode(buf, 1))

\* call k returned an F record
FrameCall(k) ==
  /\ calls[k].err = ""
  /\ Len(calls[k].ret) >= 1
  /\ IsKind(calls[k].ret[Len(calls[k].ret)], _REC_FRAME)

CarriesFee(ev) ==
  /\ ev.v["event_type"] = "last_trade_price"
  /\ "fee_rate_bps" \in DOMAIN ev.v

\* the type bytes of the record buf, at the offsets tbs, against the events
TypeBytesAgree(buf, tbs, evs) ==
  /\ Len(tbs) = Len(evs)
  /\ \A j \in 1..Len(evs) :
       /\ bit_set(buf[tbs[j] + 1], _TB_OPT0) <=> CarriesFee(evs[j])
       /\ ~bit_set(buf[tbs[j] + 1], 16)
       /\ ~bit_set(buf[tbs[j] + 1], 64)
       /\ ~bit_set(buf[tbs[j] + 1], 128)

\* the type bytes of the record of call k against the events of its frame
TypeBytesByRule(k) ==
  LET walked(w) ==
        w.ok /\ TypeBytesAgree(FrameBytes(k), w.tbs, EventsOf(calls[k].frame))
  IN walked(WalkFrame(FrameBytes(k)))

\* the output has fee_rate_bps in exactly the last_trade_price events whose
\* input had it, with the input's value
FeeAgrees(output, evs) ==
  /\ output.t = "json" /\ output.v.t = "arr"
  /\ Len(output.v.v) = Len(evs)
  /\ \A j \in 1..Len(evs) :
       /\ "fee_rate_bps" \in DOMAIN output.v.v[j].v <=> CarriesFee(evs[j])
       /\ CarriesFee(evs[j]) =>
            output.v.v[j].v["fee_rate_bps"] = evs[j].v["fee_rate_bps"]

FeeRecovered(k) == FeeAgrees(outputs[k], EventsOf(calls[k].frame))

\* C28: in every frame record compress returns, bit 3 (OPT0) of an event's
\* type byte is set iff the event is a last_trade_price carrying
\* fee_rate_bps, and bits 4, 6, 7 are 0; and the decoder, reading the
\* lines of a session in which every call returned, gives fee_rate_bps
\* back in exactly the events that carried it, for sessions mixing events
\* with and without it.
\* Stated of the record of the latest call and of the latest output: every
\* call and every output is the latest in the state that follows it.
C28_Opt0 ==
  /\ (calls # <<>> /\ FrameCall(Len(calls))) => TypeBytesByRule(Len(calls))
  /\ (/\ outputs # <<>> /\ Len(outputs) <= Len(calls)
      /\ FrameCall(Len(outputs))
      /\ BareLines /\ AllReturned(Len(outputs))
      /\ phase \in {"reinflate", "done"}) => FeeRecovered(Len(outputs))

\* a session of a last_trade_price without fee and then one with fee, all
\* of it decoded
C28_Witness ==
  /\ BareLines /\ phase = "done"
  /\ Len(calls) = 3 /\ AllReturned(3) /\ Len(outputs) = 3
  /\ calls[2].frame = JsonText(Arr(<<EvPc150, EvLtp300>>))
  /\ calls[3].frame = JsonText(Arr(<<EvLtp90Fee>>))
  /\ "fee_rate_bps" \notin DOMAIN outputs[2].v.v[2].v
  /\ outputs[3].v.v[1].v["fee_rate_bps"] = "25"

\* the reserved bits of the type byte, in the settings tried
ReservedMasks == {16, 64, 128, 208}

OffsetSet(q) == {q[k] : k \in 1..Len(q)}

\* buf with the bits of mask set in the bytes at the offsets at
SetBits(buf, at, mask) ==
  [k \in 1..Len(buf) |-> IF (k - 1) \in at THEN buf[k] + mask ELSE buf[k]]

WithReserved(buf, mask) == SetBits(buf, OffsetSet(WalkFrame(buf).tbs), mask)

\* the token is an F record
FrameToken(tok) == ~NotV3Token(tok) /\ IsKind(tok, _REC_FRAME)

\* the record with reserved bits set at the offsets at gives, from state
\* s0, the result the record itself gives
ReservedSame(tok, s0, at, result) ==
  \A mask \in ReservedMasks :
    _try_decode_v3_line(_deflate_raw_b64(SetBits(tok.v, at, mask)), s0) = result

ReservedIgnoredIn(tok, s0, w) ==
  w.ok => ReservedSame(tok, s0, OffsetSet(w.tbs), _try_decode_v3_line(tok, s0))

\* C29: the decoder ignores bits 4, 6 and 7 of the type byte: a frame
\* record and the same record with any of these bits set in the type bytes
\* of its events give, from the same decoder state, the same output (or
\* the same exception) and leave the decoder in the same state.
C29_ReservedIgnored ==
  AtEntry =>
    \A tok \in TokensOf(entries[rpos + 1]) :
      FrameToken(tok) => ReservedIgnoredIn(tok, st, WalkFrame(tok.v))

\* the decoder is about to read a frame of two events that decodes, one of
\* them with TS_ABS or OPT0 set next to the reserved bits
C29_Witness ==
  /\ AtEntry
  /\ IsStr(entries[rpos + 1])
  /\ FrameToken(entries[rpos + 1])
  /\ WalkFrame(entries[rpos + 1].v).ok
  /\ Len(WalkFrame(entries[rpos + 1].v).tbs) = 2
  /\ _try_decode_v3_line(entries[rpos + 1], st).err = ""
  /\ WithReserved(entries[rpos + 1].v, 208) # entries[rpos + 1].v
  /\ \E k \in 1..2 :
       entries[rpos + 1].v[WalkFrame(entries[rpos + 1].v).tbs[k] + 1] >= 8

(***************************************************************************)
(* C30: the side byte, over the calls made on the compressors.             *)
(***************************************************************************)

SideBytes == {0, 1, 2, 255}

\* call k on compressor i returned an F record, as did or as raised
\* nothing the calls before it
ReturnedFrame(i, k) ==
  /\ \A m \in 1..k : hist[i][m].err = ""
  /\ IsKind(hist[i][k].ret[Len(hist[i][k].ret)], _REC_FRAME)

RecordOf(i, k) == hist[i][k].ret[Len(hist[i][k].ret)]

\* the sides of the input event, uppercased, "" for a missing side
InputSides(ev) ==
  IF ev.v["event_type"] = "price_change"
  THEN [j \in 1..Len(get(ev.v, "changes", <<>>)) |->
          upper(get(get(ev.v, "changes", <<>>)[j], "side", ""))]
  ELSE IF ev.v["event_type"] = "last_trade_price"
  THEN <<upper(get(ev.v, "side", ""))>>
  ELSE <<>>

\* the sides of a decoded event
OutputSides(obj) ==
  IF obj.v["event_type"] = "price_change"
  THEN [j \in 1..Len(obj.v["changes"]) |-> obj.v["changes"][j]["side"]]
  ELSE IF obj.v["event_type"] = "last_trade_price"
  THEN <<obj.v["side"]>>
  ELSE <<>>

\* the decoder state after the lines, read in order from state s0
RECURSIVE Feed(_, _)
Feed(lines, s0) ==
  IF lines = <<>> THEN s0
  ELSE Feed(Tail(lines), _try_decode_v3_line(Head(lines), s0).st)

RECURSIVE LinesUpTo(_, _)
LinesUpTo(i, k) ==
  IF k = 0 THEN <<>> ELSE LinesUpTo(i, k - 1) \o hist[i][k].ret

AllButLast(q) == SubSeq(q, 1, Len(q) - 1)

\* the decoder state in which the record of call k is read
StateAt(i, k) == Feed(AllButLast(LinesUpTo(i, k)), _V3State_init)

\* the side bytes of buf, at the offsets sides, against the events
SideBytesAgree(buf, sides, evs) ==
  /\ Len(sides) = Len(evs)
  /\ \A e \in 1..Len(evs) :
       /\ Len(sides[e]) = Len(InputSides(evs[e]))
       /\ \A j \in 1..Len(sides[e]) :
            buf[sides[e][j] + 1] = IF InputSides(evs[e])[j] = "SELL" THEN 1 ELSE 0

\* the side bytes written are 1 for SELL and 0 otherwise
SideBytesIn(buf, w, evs) == w.ok /\ SideBytesAgree(buf, w.sides, evs)

\* the result r of decoding a record has SELL where the input side is SELL
\* and BUY elsewhere
SidesAgree(r, evs) ==
  /\ r.err = "" /\ Len(r.outs) = 1
  /\ Len(r.outs[1].v.v) = Len(evs)
  /\ \A e \in 1..Len(evs) :
       /\ Len(OutputSides(r.outs[1].v.v[e])) = Len(InputSides(evs[e]))
       /\ \A j \in 1..Len(InputSides(evs[e])) :
            OutputSides(r.outs[1].v.v[e])[j]
              = IF InputSides(evs[e])[j] = "SELL" THEN "SELL" ELSE "BUY"

\* every side of the result r is the given one
AllSides(r, side) ==
  /\ r.err = "" /\ Len(r.outs) = 1
  /\ \A e \in 1..Len(r.outs[1].v.v) :
       \A j \in 1..Len(OutputSides(r.outs[1].v.v[e])) :
         OutputSides(r.outs[1].v.v[e])[j] = side

\* buf with the byte b at the offsets at
SetBytes(buf, at, b) ==
  [k \in 1..Len(buf) |-> IF (k - 1) \in at THEN b ELSE buf[k]]

RECURSIVE Flatten(_)
Flatten(qq) == IF qq = <<>> THEN <<>> ELSE Head(qq) \o Flatten(Tail(qq))

\* with every side byte of the record set to b, every side decodes, from
\* state s0, to SELL if b is 1 and to BUY if not
AnySideByteDecoded(buf, at, s0) ==
  \A b \in SideBytes :
    AllSides(_try_decode_v3_line(_deflate_raw_b64(SetBytes(buf, at, b)), s0),
             IF b = 1 THEN "SELL" ELSE "BUY")

\* the record rec of the events evs, walked as w and read in state s0
SideCanonicalIn(rec, evs, w, s0) ==
  /\ SideBytesIn(rec.v, w, evs)
  /\ SidesAgree(_try_decode_v3_line(rec, s0), evs)
  /\ AnySideByteDecoded(rec.v, OffsetSet(Flatten(w.sides)), s0)

SidesDecoded(i, k) ==
  SidesAgree(_try_decode_v3_line(RecordOf(i, k), StateAt(i, k)),
             EventsOf(hist[i][k].frame))

Called(name) == uop # <<>> /\ uop[1].name = name

\* the bytes b are a varint: every byte but the last has the continuation
\* bit, the last has not
VarintShape(b) ==
  /\ Len(b) >= 1
  /\ \A k \in 1..(Len(b) - 1) : b[k] >= 128
  /\ b[Len(b)] < 128

\* what _uvarint_encode(c.n, out) did is right
EncodedRight(c, out) ==
  IF c.n < 0
  THEN c.err = "uvarint negative" /\ c.wrote = <<>> /\ out = c.buf
  ELSE /\ c.err = ""
       /\ out = c.buf \o c.wrote
       /\ VarintShape(c.wrote)
       /\ c.wrote[Len(c.wrote)] # 0 \/ c.n = 0
       /\ _uvarint_decode(c.wrote, 0) = [err |-> "", x |-> c.n, i |-> Len(c.wrote)]
       /\ _uvarint_decode(out, Len(c.buf)) = [err |-> "", x |-> c.n, i |-> Len(out)]

\* C31: for every n >= 0 of the range, _uvarint_decode(_uvarint_encode(n), 0)
\* returns (n, number of bytes written), each byte but the last has the
\* continuation bit set and the last byte is non-zero unless n = 0; a
\* negative n is rejected and appends nothing.
C31_VarintRoundTrip ==
  Called("_uvarint_encode") => EncodedRight(uop[1], ubuf)

\* 2^31 - 1 was appended, in five bytes, to a bytearray that held a byte
C31_Witness ==
  /\ Called("_uvarint_encode")
  /\ uop[1].n = 2147483647
  /\ Len(uop[1].buf) = 1
  /\ uop[1].wrote = <<255, 255, 255, 255, 7>>
  /\ Len(ubuf) = 6

\* the number of bytes with the continuation bit that follow one another
\* in buf from index i
RECURSIVE Run(_, _)
Run(buf, i) ==
  IF i >= Len(buf) \/ buf[i + 1] < 128 THEN 0 ELSE 1 + Run(buf, i + 1)

\* the error of the call c is the one its buffer asks for, run being the
\* run of continuation bytes from c.i
ErrorByRun(c, run) ==
  /\ c.err = "uvarint overflow" <=> run > 10
  /\ c.err = "uvarint truncated" <=> (run <= 10 /\ c.i + run >= Len(c.buf))
  /\ c.err = "" <=> (run <= 10 /\ c.i + run < Len(c.buf))
  /\ c.err = "" => c.ri = c.i + run + 1
  /\ c.err = "uvarint overflow" => c.ri = c.i + 11

\* the indices the call read: from c.i up to where it stopped
IndicesRead(c) == c.i..(c.ri - 1)

\* C32: _uvarint_decode fails with 'truncated' exactly when the buffer ends
\* before a byte with a clear continuation bit is read, fails with
\* 'overflow' exactly when more than 10 continuation bytes are read, and
\* never reads an index at or beyond the buffer length.
C32_VarintErrors ==
  Called("_uvarint_decode") =>
    /\ ErrorByRun(uop[1], Run(uop[1].buf, uop[1].i))
    /\ \A j \in IndicesRead(uop[1]) : j < Len(uop[1].buf)

\* a call that started at index 1 of twelve continuation bytes and gave up
\* on the last of them
C32_Witness ==
  /\ Called("_uvarint_decode")
  /\ uop[1].buf = Cont(12)
  /\ uop[1].i = 1
  /\ uop[1].err = "uvarint overflow"
  /\ uop[1].ri = 12

(***************************************************************************)
(* C33, C34: the pool.                                                     *)
(***************************************************************************)

\* the decode call c, whose varint is v, on the pool before it and the pool
\* after it
DecodeByRule(c, v, after) ==
  /\ (v.x % 2 = 0 /\ (v.x \div 2 = 0 \/ v.x \div 2 >= c.before.next)) =>
       c.err = "bad string ref" /\ after = c.before
  /\ (v.x % 2 = 0 /\ v.x \div 2 >= 1 /\ v.x \div 2 < c.before.next) =>
       /\ c.err = ""
       /\ c.rs = c.before.i2s[(v.x \div 2) + 1]
       /\ c.ri = v.i
       /\ after = c.before
  /\ (v.x % 2 = 1 /\ v.i + (v.x \div 2) > Len(c.buf)) =>
       c.err = "literal overflow" /\ after = c.before
  /\ c.err \in {"bad string ref", "literal overflow"} => after = c.before

DecodeChecked(c, v, after) ==
  IF v.err # "" THEN c.err = v.err /\ after = c.before
  ELSE DecodeByRule(c, v, after)

\* C33: a reference with idx = 0 or idx >= next_id fails with 'bad string
\* ref' and a literal whose length exceeds the remaining buffer fails with
\* 'literal overflow'; in both cases the pool (table and next_id) is
\* unchanged, and a successful reference never changes the pool.
C33_PoolDecodeErrors ==
  Called("decode") =>
    DecodeChecked(uop[1], _uvarint_decode(uop[1].buf, uop[1].i), upool)

\* a pool of one string was given the reference 2 and raised
C33_Witness ==
  /\ Called("decode")
  /\ uop[1].before.next = 2
  /\ uop[1].buf = <<4>>
  /\ uop[1].err = "bad string ref"
  /\ upool.next = 2

\* next_id is the length of the table, whose entry 0 is the placeholder;
\* no string has the id 0, the ids of the strings are among 1..next_id-1
\* and each of these ids holds a string that has an id
PoolShape(p) ==
  /\ p.next = Len(p.i2s)
  /\ p.next >= 1
  /\ p.i2s[1] = "<unused>"
  /\ \A s \in DOMAIN p.s2i :
       /\ p.s2i[s] # 0
       /\ p.s2i[s] \in 1..(p.next - 1)
       /\ p.i2s[p.s2i[s] + 1] = s
  /\ \A id \in 1..(p.next - 1) : p.i2s[id + 1] \in DOMAIN p.s2i

\* the string-to-id map is the inverse of the id-to-string table
Inverse(p) ==
  /\ \A id \in 1..(p.next - 1) : p.s2i[p.i2s[id + 1]] = id
  /\ \A s \in DOMAIN p.s2i : p.i2s[p.s2i[s] + 1] = s
  /\ Cardinality(DOMAIN p.s2i) = p.next - 1

\* the pool q holds what the pool p held, at the same ids
Grown(p, q) ==
  /\ q.next >= p.next
  /\ SubSeq(q.i2s, 1, Len(p.i2s)) = p.i2s
  /\ DOMAIN p.s2i \subseteq DOMAIN q.s2i

\* C34: after any sequence of encode, decode and reset calls next_id equals
\* the length of the id-to-string table, id 0 is never assigned to a
\* string, the ids in use are exactly 1..next_id-1, the pool only grows
\* between resets, and on the encoder side (a pool on which decode was not
\* called) the string-to-id map is the exact inverse of the id-to-string
\* table.
C34_PoolStructure ==
  [][/\ PoolShape(upool')
     /\ ~udec' => Inverse(upool')
     /\ ~Called("reset")' => Grown(upool, upool')]_vars

\* the pool after a decode that stored, as id 2, the string it held as id 1
C34_Witness ==
  /\ Called("decode")
  /\ udec
  /\ upool.next = 3
  /\ upool.i2s[2] = upool.i2s[3]
  /\ uop[1].before.next = 2

(***************************************************************************)
(* C35: run_forever and the end of a connection.                           *)
(***************************************************************************)

\* run_forever has left its loop and closed the writer
LoopLeft == pc = "stopped" /\ closed

\* C35: when the websocket connection ends without stop() or an interrupt
\* having been requested, run_forever goes on to reconnect, after a backoff
\* that doubles per attempt and is capped at MAX_BACKOFF_SEC; it leaves its
\* loop only after stop() or an interrupt.
C35_Reconnect ==
  /\ LoopLeft => loop.asked
  /\ loop.backoff = min(2 ^ (loop.connects - 1), MAX_BACKOFF_SEC)

====
